---- MODULE Spec2Model ----
(***************************************************************************)
(* A model of the widget layout engine of general/plotting/widgeometry.py: *)
(* Buffer, WidgetSize and the Geometry solver (legality check, buffer      *)
(* normalisation, capacity check, shrink, expand, position assignment).    *)
(*                                                                         *)
(* The Python floats are modelled as exact rationals <<num, den>> kept in  *)
(* lowest terms with den > 0.  Axes are numbered from 0 as in the source;  *)
(* a childList is a sequence, so childList[0] of the source is             *)
(* childList[1] here and childList[-1] is childList[Len(childList)].       *)
(* Every widget of a tree owns its WidgetSize and Buffer objects (no       *)
(* object is shared between two widgets or two axes).                      *)
(***************************************************************************)
EXTENDS Integers, Sequences, FiniteSets, TLC

\* ------------------------------------------------------------ bounds
\* A _HueGraph grows to at most MaxPoints points.
MaxPoints == 4
\* An ActionHistory holds at most MaxActions actions.
MaxActions == 3
\* Exact extents of non-root widgets are drawn from 1..MaxExtent.
MaxExtent == 2
\* At most MaxCalls calls of calcRanges are made on one Geometry object.
MaxCalls == 2

\* ------------------------------------------------------------ numbers
Abs(n) == IF n < 0 THEN -n ELSE n

RECURSIVE GCD(_, _)
GCD(a, b) == IF b = 0 THEN a ELSE GCD(b, a % b)

\* The rational n/d (d # 0) in lowest terms with a positive denominator.
Rat(n, d) ==
  LET s == IF d < 0 THEN -1 ELSE 1
      g == GCD(Abs(n), Abs(d))
  IN  <<(s * n) \div g, (s * d) \div g>>

R(n) == <<n, 1>>
Zero == R(0)
Two == R(2)
Half == <<1, 2>>

Add(a, b) == Rat(a[1] * b[2] + b[1] * a[2], a[2] * b[2])
Sub(a, b) == Rat(a[1] * b[2] - b[1] * a[2], a[2] * b[2])
Mul(a, b) == Rat(a[1] * b[1], a[2] * b[2])
Div(a, b) == Rat(a[1] * b[2], a[2] * b[1])
Lt(a, b) == a[1] * b[2] < b[1] * a[2]
Le(a, b) == a[1] * b[2] <= b[1] * a[2]
Gt(a, b) == Lt(b, a)
Ge(a, b) == Le(b, a)

\* ------------------------------------------------------------ data
\* Python's None (a range that was never given, a widget that is no frame).
None == [none |-> TRUE]

\* None where a number is expected (the maxExtent argument left out).
NoExtent == <<>>

\* ranges.SimpleRange(lo, hi) as the solver uses it: two attributes.
SimpleRange(lo, hi) == [lo |-> lo, hi |-> hi]

\* Buffer.__init__ (the style is one of _possibleStyles).
Buffer(value, style) == [value |-> value, style |-> style]

\* A faulty setWorld that does not look at the style before it scales.
SetWorldAlwaysScaling(buf, guiMaxExtent) ==
  [value |-> Mul(buf.value, guiMaxExtent), style |-> "world"]

\* Buffer.setWorld: the buffer after the call.
SetWorld(buf, guiMaxExtent) ==
  IF buf.style = "world"
    THEN buf
    ELSE [value |-> IF buf.style = "asFrac"
                      THEN Mul(buf.value, guiMaxExtent)
                      ELSE buf.value,
          style |-> "world"]

\* WidgetSize.__init__ for arguments it accepts: maxExtent is None or a number.
WidgetSize(spaceDemand, maxExtent, outerBuffer, innerBuffer, childrenJustify) ==
  [spaceDemand     |-> spaceDemand,
   range           |-> IF maxExtent = NoExtent THEN None
                                           ELSE SimpleRange(Zero, maxExtent),
   outerBuffer     |-> outerBuffer,
   innerBuffer     |-> innerBuffer,
   childrenJustify |-> childrenJustify]

\* The children descriptor of a frame widget (TestChildren in the self-test).
Children(childList, childSequenceDir) ==
  [childList |-> childList, childSequenceDir |-> childSequenceDir]

\* A widget as the solver reads it: sizes (one WidgetSize per axis) and children.
Widget(sizes, children) == [sizes |-> sizes, children |-> children]

\* The root widget of every tree (Geometry.rootWidget).
rootWidget == 1

\* A raised ValueError: which raise statement, on which axis, and the widget
\* and child its message names (child is 0 when the message names no child).
Error(kind, di, widget, child) ==
  [kind |-> kind, di |-> di, widget |-> widget, child |-> child]
NoError == Error("none", -1, 0, 0)

\* hi - lo of a range.
Extent(size) == Sub(size.range.hi, size.range.lo)

\* The children of a frame, in order; the demand and extent of a widget on an axis.
ChildList(ws, widget) == ws[widget].children.childList
Demand(ws, widget, di) == ws[widget].sizes[di].spaceDemand
ExtentOf(ws, widget, di) == Extent(ws[widget].sizes[di])
OuterBuf(ws, widget, di) == ws[widget].sizes[di].outerBuffer.value
InnerBuf(ws, widget, di) == ws[widget].sizes[di].innerBuffer.value

RECURSIVE SumSeq(_)
SumSeq(s) == IF s = <<>> THEN Zero ELSE Add(Head(s), SumSeq(Tail(s)))

\* ------------------------------------------------------------ Geometry
\* Geometry._checkSpaceDemands: the first ValueError raised, or NoError.
RECURSIVE CheckSpaceDemands(_, _, _), CheckSpaceDemandsKids(_, _, _, _)
\* A faulty loop over the children that lacks the shrink/expand test.
KidsLegalityWithoutExpandTest(ws, widget, di, ci) ==
  IF ci > Len(ChildList(ws, widget)) THEN NoError
  ELSE LET e == CheckSpaceDemands(ws, ChildList(ws, widget)[ci], di) IN
       IF e # NoError THEN e ELSE CheckSpaceDemandsKids(ws, widget, di, ci + 1)

CheckSpaceDemandsKids(ws, widget, di, ci) ==
  IF ci > Len(ChildList(ws, widget)) THEN NoError
  ELSE LET child == ChildList(ws, widget)[ci] IN
    IF Demand(ws, widget, di) = "shrinkToFit" /\ Demand(ws, child, di) = "expandToFit"
      THEN Error("ExpandUnderShrink", di, widget, child)
      ELSE LET e == CheckSpaceDemands(ws, child, di) IN
           IF e # NoError THEN e ELSE CheckSpaceDemandsKids(ws, widget, di, ci + 1)

\* A faulty legality check that lacks the test of the root.
LegalityIgnoringRoot(ws, widget, di) ==
  IF ws[widget].children = None
    THEN IF Demand(ws, widget, di) = "shrinkToFit"
           THEN Error("LeafCannotShrink", di, widget, 0)
           ELSE NoError
  ELSE CheckSpaceDemandsKids(ws, widget, di, 1)

\* A faulty legality check that lacks the test of the leaves.
LegalityIgnoringLeaves(ws, widget, di) ==
  IF widget = rootWidget /\ Demand(ws, widget, di) = "expandToFit"
    THEN Error("RootCannotExpand", di, widget, 0)
  ELSE IF ws[widget].children = None THEN NoError
  ELSE CheckSpaceDemandsKids(ws, widget, di, 1)

CheckSpaceDemands(ws, widget, di) ==
  IF widget = rootWidget /\ Demand(ws, widget, di) = "expandToFit"
    THEN Error("RootCannotExpand", di, widget, 0)
  ELSE IF ws[widget].children = None
    THEN IF Demand(ws, widget, di) = "shrinkToFit"
           THEN Error("LeafCannotShrink", di, widget, 0)
           ELSE NoError
  ELSE CheckSpaceDemandsKids(ws, widget, di, 1)

\* Geometry.__init__, first loop: per axis the legality check, then the test
\* that the root has a range.
RECURSIVE CheckAxes(_, _, _)
CheckAxes(ws, di, maxNumDims) ==
  IF di >= maxNumDims THEN NoError
  ELSE LET e == CheckSpaceDemands(ws, rootWidget, di) IN
    IF e # NoError THEN e
    ELSE IF ws[rootWidget].sizes[di].range = None
      THEN Error("RootNeedsExtent", di, rootWidget, 0)
      ELSE CheckAxes(ws, di + 1, maxNumDims)

\* Geometry.__init__, second loop: the largest root extent, starting from 0.0.
RECURSIVE MaxRootSize(_, _, _, _)
MaxRootSize(ws, di, maxNumDims, maxRootSize) ==
  IF di >= maxNumDims THEN maxRootSize
  ELSE LET rootSize == ExtentOf(ws, rootWidget, di) IN
    MaxRootSize(ws, di + 1, maxNumDims,
                IF Gt(rootSize, maxRootSize) THEN rootSize ELSE maxRootSize)

\* Geometry.maxNumDims: the number of WidgetSize objects of the root.
MaxNumDims(ws) == Cardinality(DOMAIN ws[rootWidget].sizes)

\* Geometry._setBuffersForChildren: the tree after the call.
SetBuffersOfWidget(ws, widget, maxRootSize) ==
  [ws EXCEPT ![widget].sizes =
     [di \in DOMAIN ws[widget].sizes |->
        IF di < MaxNumDims(ws)
          THEN [ws[widget].sizes[di] EXCEPT
                  !.outerBuffer = SetWorld(@, maxRootSize),
                  !.innerBuffer = SetWorld(@, maxRootSize)]
          ELSE ws[widget].sizes[di]]]

RECURSIVE SetBuffersForChildren(_, _, _), SetBuffersForKids(_, _, _, _)
SetBuffersForKids(ws, widget, maxRootSize, ci) ==
  IF ci > Len(ChildList(ws, widget)) THEN ws
  ELSE SetBuffersForKids(
         SetBuffersForChildren(ws, ChildList(ws, widget)[ci], maxRootSize),
         widget, maxRootSize, ci + 1)

\* A faulty conversion that does not descend to the children.
SetBuffersRootOnly(ws, widget, maxRootSize) ==
  SetBuffersOfWidget(ws, widget, maxRootSize)

SetBuffersForChildren(ws, widget, maxRootSize) ==
  LET ws1 == SetBuffersOfWidget(ws, widget, maxRootSize) IN
  IF ws1[widget].children = None THEN ws1
  ELSE SetBuffersForKids(ws1, widget, maxRootSize, 1)

\* A faulty count that keeps the outer buffers at the two ends of the run.
RunLengthKeepingEnds(ws, widget, di, counted) ==
  LET kids == ChildList(ws, widget)
      term(ci) == Add(IF kids[ci] \in counted THEN ExtentOf(ws, kids[ci], di) ELSE Zero,
                      Mul(Two, OuterBuf(ws, kids[ci], di)))
  IN  SumSeq([ci \in 1..Len(kids) |-> term(ci)])

\* The space the children of a frame take on their sequence axis, as the three
\* loops of the solver count it: the extents of the children in `counted` and
\* twice every child's outer buffer, less the first and the last outer buffer.
RunLength(ws, widget, di, counted) ==
  LET kids == ChildList(ws, widget)
      term(ci) == Add(IF kids[ci] \in counted THEN ExtentOf(ws, kids[ci], di) ELSE Zero,
                      Mul(Two, OuterBuf(ws, kids[ci], di)))
  IN  Sub(Sub(SumSeq([ci \in 1..Len(kids) |-> term(ci)]),
              OuterBuf(ws, kids[1], di)),
          OuterBuf(ws, kids[Len(kids)], di))

KidsWithDemand(ws, widget, di, demands) ==
  {ChildList(ws, widget)[ci] : ci \in
     {cj \in 1..Len(ChildList(ws, widget)) :
        Demand(ws, ChildList(ws, widget)[cj], di) \in demands}}

\* Geometry._checkSizeChildren: the first ValueError raised, or NoError.
RECURSIVE CheckSizeChildren(_, _, _, _), CheckSizeKids(_, _, _, _, _)
CheckSizeKids(ws, widget, di, epsilon, ci) ==
  IF ci > Len(ChildList(ws, widget)) THEN NoError
  ELSE LET e == CheckSizeChildren(ws, ChildList(ws, widget)[ci], di, epsilon) IN
       IF e # NoError THEN e ELSE CheckSizeKids(ws, widget, di, epsilon, ci + 1)

RECURSIVE FirstTooBig(_, _, _, _, _, _)
FirstTooBig(ws, widget, di, epsilon, availableSpace, ci) ==
  IF ci > Len(ChildList(ws, widget)) THEN 0
  ELSE LET child == ChildList(ws, widget)[ci] IN
    IF /\ Demand(ws, child, di) = "exact"
       /\ Gt(Sub(ExtentOf(ws, child, di), epsilon), availableSpace)
      THEN child
      ELSE FirstTooBig(ws, widget, di, epsilon, availableSpace, ci + 1)

\* A faulty capacity check that lacks the test on the sequence axis.
CheckSizeWithoutSequenceTest(ws, widget, di, epsilon) ==
  IF \/ ws[widget].children = None
     \/ Len(ChildList(ws, widget)) <= 0
     \/ Demand(ws, widget, di) # "exact"
    THEN NoError
  ELSE CheckSizeKids(ws, widget, di, epsilon, 1)

CheckSizeChildren(ws, widget, di, epsilon) ==
  IF \/ ws[widget].children = None
     \/ Len(ChildList(ws, widget)) <= 0
     \/ Demand(ws, widget, di) # "exact"
    THEN NoError
  ELSE
    LET interior == Sub(ExtentOf(ws, widget, di), Mul(Two, InnerBuf(ws, widget, di)))
    IN
    IF ws[widget].children.childSequenceDir = di
      THEN LET availableSpace ==
                 Sub(interior,
                     RunLength(ws, widget, di, KidsWithDemand(ws, widget, di, {"exact"})))
           IN IF Lt(Add(availableSpace, epsilon), Zero)
                THEN Error("InsufficientSpace", di, widget, 0)
                ELSE CheckSizeKids(ws, widget, di, epsilon, 1)
      ELSE LET bad == FirstTooBig(ws, widget, di, epsilon, interior, 1)
           IN IF bad # 0
                THEN Error("InsufficientSpace", di, widget, bad)
                ELSE CheckSizeKids(ws, widget, di, epsilon, 1)

\* Assignments the solver makes to one WidgetSize.
\* A faulty assignment that writes the range on every axis of the widget.
SetRangeOnEveryAxis(ws, widget, di, lo, hi) ==
  [ws EXCEPT ![widget].sizes =
     [dj \in DOMAIN ws[widget].sizes |->
        [ws[widget].sizes[dj] EXCEPT !.range = SimpleRange(lo, hi)]]]

SetRange(ws, widget, di, lo, hi) ==
  [ws EXCEPT ![widget].sizes[di].range = SimpleRange(lo, hi)]

\* A faulty resolution that sets the range and leaves the demand as declared.
MakeExactKeepingDemand(ws, widget, di, extent) ==
  [ws EXCEPT ![widget].sizes[di].range = SimpleRange(Zero, extent)]

\* A faulty resolution that marks the widget 'shrinkToFit'.
MakeExactMarkingShrink(ws, widget, di, extent) ==
  [ws EXCEPT ![widget].sizes[di].range = SimpleRange(Zero, extent),
             ![widget].sizes[di].spaceDemand = "shrinkToFit"]

\* range := [0, extent] and spaceDemand := 'exact' (ends of _shrinkChildren
\* and of the two branches of _expandChildren).
MakeExact(ws, widget, di, extent) ==
  [ws EXCEPT ![widget].sizes[di].range = SimpleRange(Zero, extent),
             ![widget].sizes[di].spaceDemand = "exact"]

\* A faulty search that adds its outer buffers to the extent of each child.
RECURSIVE MaxChildSizeWithOuterBuffers(_, _, _, _, _)
MaxChildSizeWithOuterBuffers(ws, widget, di, ci, best) ==
  IF ci > Len(ChildList(ws, widget)) THEN best
  ELSE LET child == ChildList(ws, widget)[ci]
           childSize == Add(ExtentOf(ws, child, di), Mul(Two, OuterBuf(ws, child, di)))
       IN MaxChildSizeWithOuterBuffers(ws, widget, di, ci + 1,
                                       IF Gt(childSize, best) THEN childSize ELSE best)

\* The largest extent among the children (0 for an empty list).
RECURSIVE MaxChildSize(_, _, _, _, _)
MaxChildSize(ws, widget, di, ci, best) ==
  IF ci > Len(ChildList(ws, widget)) THEN best
  ELSE LET childSize == ExtentOf(ws, ChildList(ws, widget)[ci], di) IN
       MaxChildSize(ws, widget, di, ci + 1,
                    IF Gt(childSize, best) THEN childSize ELSE best)

\* Geometry._shrinkChildren: the tree after the call.
RECURSIVE ShrinkChildren(_, _, _), ShrinkKids(_, _, _, _)
ShrinkKids(ws, widget, di, ci) ==
  IF ci > Len(ChildList(ws, widget)) THEN ws
  ELSE ShrinkKids(ShrinkChildren(ws, ChildList(ws, widget)[ci], di), widget, di, ci + 1)

ShrinkChildren(ws, widget, di) ==
  IF ws[widget].children = None THEN ws
  ELSE
    LET ws1 == ShrinkKids(ws, widget, di, 1)
        kids == ChildList(ws1, widget)
        numExpandChildren == Cardinality({ci \in 1..Len(kids) :
                                            Demand(ws1, kids[ci], di) = "expandToFit"})
        totalChildSize ==
          IF ws1[widget].children.childSequenceDir = di
            THEN IF Len(kids) > 0
                   THEN RunLength(ws1, widget, di, {kids[ci] : ci \in 1..Len(kids)})
                   ELSE Zero
          ELSE IF Len(kids) > 0
            THEN MaxChildSize(ws1, widget, di, 2, ExtentOf(ws1, kids[1], di))
            ELSE Zero
    IN
    IF numExpandChildren > 0 THEN ws1
    ELSE IF Demand(ws1, widget, di) # "shrinkToFit" THEN ws1
    ELSE MakeExact(ws1, widget, di,
                   Add(totalChildSize, Mul(Two, InnerBuf(ws1, widget, di))))

\* The result of a call that may raise: the tree as the call left it, and the
\* error raised (NoError when it returned).
Outcome(ws, err) == [ws |-> ws, err |-> err]

\* A faulty loop that divides the extent among the children still expanding.
RECURSIVE ResolveExpandingShared(_, _, _, _, _)
ResolveExpandingShared(ws, widget, di, extent, ci) ==
  IF ci > Len(ChildList(ws, widget)) THEN ws
  ELSE LET child == ChildList(ws, widget)[ci]
           numExpandChildren == Cardinality(KidsWithDemand(ws, widget, di, {"expandToFit"}))
       IN ResolveExpandingShared(IF Demand(ws, child, di) = "expandToFit"
                                   THEN MakeExact(ws, child, di,
                                                  Div(extent, R(numExpandChildren)))
                                   ELSE ws,
                                 widget, di, extent, ci + 1)

\* Every expandToFit child of the widget becomes exact with the given extent.
RECURSIVE ResolveExpanding(_, _, _, _, _)
ResolveExpanding(ws, widget, di, extent, ci) ==
  IF ci > Len(ChildList(ws, widget)) THEN ws
  ELSE LET child == ChildList(ws, widget)[ci] IN
       ResolveExpanding(IF Demand(ws, child, di) = "expandToFit"
                          THEN MakeExact(ws, child, di, extent)
                          ELSE ws,
                        widget, di, extent, ci + 1)

\* Geometry._expandChildren: the tree after the call and the error raised.
RECURSIVE ExpandChildren(_, _, _), ExpandKids(_, _, _, _)
ExpandKids(ws, widget, di, ci) ==
  IF ci > Len(ChildList(ws, widget)) THEN Outcome(ws, NoError)
  ELSE LET r == ExpandChildren(ws, ChildList(ws, widget)[ci], di) IN
       IF r.err # NoError THEN r ELSE ExpandKids(r.ws, widget, di, ci + 1)

\* A faulty expansion that gives every expanding child all the free space.
ExpandWithoutSharing(ws, widget, di) ==
  IF ws[widget].children = None \/ Len(ChildList(ws, widget)) <= 0
    THEN Outcome(ws, NoError)
  ELSE
    LET numExpandChildren == Cardinality(KidsWithDemand(ws, widget, di, {"expandToFit"}))
        interior == Sub(ExtentOf(ws, widget, di), Mul(Two, InnerBuf(ws, widget, di)))
        availableSpace ==
          IF ws[widget].children.childSequenceDir = di
            THEN Sub(interior,
                     RunLength(ws, widget, di,
                               KidsWithDemand(ws, widget, di, {"exact", "shrinkToFit"})))
            ELSE interior
    IN
    IF numExpandChildren > 0
      THEN IF ws[widget].children.childSequenceDir = di /\ Le(availableSpace, Zero)
             THEN Outcome(ws, Error("NoSpaceToExpand", di, widget, 0))
             ELSE ExpandKids(ResolveExpanding(ws, widget, di, availableSpace, 1),
                             widget, di, 1)
      ELSE ExpandKids(ws, widget, di, 1)

ExpandChildren(ws, widget, di) ==
  IF ws[widget].children = None \/ Len(ChildList(ws, widget)) <= 0
    THEN Outcome(ws, NoError)
  ELSE
    LET expanding == KidsWithDemand(ws, widget, di, {"expandToFit"})
        numExpandChildren == Cardinality(expanding)
        widgetSize == ExtentOf(ws, widget, di)
        interior == Sub(widgetSize, Mul(Two, InnerBuf(ws, widget, di)))
    IN
    IF numExpandChildren > 0
      THEN
        IF ws[widget].children.childSequenceDir = di
          THEN LET availableSpace ==
                     Sub(interior,
                         RunLength(ws, widget, di,
                                   KidsWithDemand(ws, widget, di,
                                                  {"exact", "shrinkToFit"})))
                   spacePerWidget == Div(availableSpace, R(numExpandChildren))
               IN IF Le(availableSpace, Zero)
                    THEN Outcome(ws, Error("NoSpaceToExpand", di, widget, 0))
                    ELSE ExpandKids(ResolveExpanding(ws, widget, di, spacePerWidget, 1),
                                    widget, di, 1)
          ELSE ExpandKids(ResolveExpanding(ws, widget, di, interior, 1), widget, di, 1)
      ELSE ExpandKids(ws, widget, di, 1)

\* The loops that lay the children side by side from x upwards: each child
\* starts one outer buffer after x; x then moves past the child, its outer
\* buffer and `added` (the spread branch adds space, the others add 0.0).
RECURSIVE PackUp(_, _, _, _, _, _)
\* A faulty loop that starts each child at x, without its outer buffer.
PackUpWithoutOuterBuffers(ws, widget, di, ci, x, added) ==
  IF ci > Len(ChildList(ws, widget)) THEN ws
  ELSE LET child == ChildList(ws, widget)[ci]
           delta == ExtentOf(ws, child, di)
       IN PackUp(SetRange(ws, child, di, x, Add(x, delta)), widget, di, ci + 1,
                 Add(Add(x, delta), added), added)

\* A faulty loop that never adds the space between the children.
PackUpWithoutAddedSpace(ws, widget, di, ci, x, added) ==
  IF ci > Len(ChildList(ws, widget)) THEN ws
  ELSE LET child == ChildList(ws, widget)[ci]
           lo == Add(x, OuterBuf(ws, child, di))
           delta == ExtentOf(ws, child, di)
       IN PackUp(SetRange(ws, child, di, lo, Add(lo, delta)), widget, di, ci + 1,
                 Add(Add(lo, delta), OuterBuf(ws, child, di)), added)

PackUp(ws, widget, di, ci, x, added) ==
  IF ci > Len(ChildList(ws, widget)) THEN ws
  ELSE LET child == ChildList(ws, widget)[ci]
           lo == Add(x, OuterBuf(ws, child, di))
           delta == ExtentOf(ws, child, di)
       IN PackUp(SetRange(ws, child, di, lo, Add(lo, delta)), widget, di, ci + 1,
                 Add(Add(Add(lo, delta), OuterBuf(ws, child, di)), added), added)

\* The toHighest loop: children laid from x downwards, last child first.
RECURSIVE PackDown(_, _, _, _, _)
PackDown(ws, widget, di, ci, x) ==
  IF ci > Len(ChildList(ws, widget)) THEN ws
  ELSE LET child == ChildList(ws, widget)[Len(ChildList(ws, widget)) + 1 - ci]
           hi == Sub(x, OuterBuf(ws, child, di))
           delta == ExtentOf(ws, child, di)
       IN PackDown(SetRange(ws, child, di, Sub(hi, delta), hi), widget, di, ci + 1,
                   Sub(Sub(hi, delta), OuterBuf(ws, child, di)))

\* The cross-axis loops: every child placed on its own against x, which is
\* the low edge (toLowest), the high edge (toHighest) or the midpoint.
RECURSIVE PlaceEach(_, _, _, _, _, _)
\* A faulty loop that starts a centred child at the midpoint.
PlaceEachFromMidpoint(ws, widget, di, ci, x, justify) ==
  IF ci > Len(ChildList(ws, widget)) THEN ws
  ELSE LET child == ChildList(ws, widget)[ci]
           delta == ExtentOf(ws, child, di)
           placed ==
             IF justify = "toHighest"
               THEN SetRange(ws, child, di, Sub(x, delta), x)
               ELSE SetRange(ws, child, di, x, Add(x, delta))
       IN PlaceEach(placed, widget, di, ci + 1, x, justify)

PlaceEach(ws, widget, di, ci, x, justify) ==
  IF ci > Len(ChildList(ws, widget)) THEN ws
  ELSE LET child == ChildList(ws, widget)[ci]
           delta == ExtentOf(ws, child, di)
           placed ==
             IF justify = "toLowest"
               THEN SetRange(ws, child, di, x, Add(x, delta))
             ELSE IF justify = "toHighest"
               THEN SetRange(ws, child, di, Sub(x, delta), x)
             ELSE SetRange(ws, child, di, Sub(x, Mul(Half, delta)),
                                          Add(x, Mul(Half, delta)))
       IN PlaceEach(placed, widget, di, ci + 1, x, justify)

\* A faulty placement that knows 'spread' and 'centre' only, and on an axis
\* across the sequence takes 'spread' for 'toLowest'.
PlaceChildrenSpreadToLowest(ws, widget, di) ==
  LET size == ws[widget].sizes[di]
      middle == Mul(Half, Add(size.range.hi, size.range.lo))
  IN IF ws[widget].children.childSequenceDir = di
       THEN PackUp(ws, widget, di, 1,
                   Sub(Sub(middle,
                           Mul(Half, RunLength(ws, widget, di,
                                               {ChildList(ws, widget)[ci] :
                                                  ci \in 1..Len(ChildList(ws, widget))}))),
                       OuterBuf(ws, ChildList(ws, widget)[1], di)),
                   Zero)
     ELSE IF size.childrenJustify = "spread"
       THEN PlaceEach(ws, widget, di, 1,
                      Add(size.range.lo, size.innerBuffer.value), "toLowest")
       ELSE PlaceEach(ws, widget, di, 1, middle, "centre")

\* Geometry._calcPositionsofChildren, one level: the children of the widget placed.
PlaceChildren(ws, widget, di) ==
  LET kids == ChildList(ws, widget)
      numChildren == Len(kids)
      size == ws[widget].sizes[di]
      justify == size.childrenJustify
      all == {kids[ci] : ci \in 1..numChildren}
  IN
  IF ws[widget].children.childSequenceDir = di
    THEN
      IF justify = "toLowest"
        THEN PackUp(ws, widget, di, 1,
                    Sub(Add(size.range.lo, size.innerBuffer.value),
                        OuterBuf(ws, kids[1], di)),
                    Zero)
      ELSE IF justify = "toHighest"
        THEN PackDown(ws, widget, di, 1,
                      Add(Sub(size.range.hi, size.innerBuffer.value),
                          OuterBuf(ws, kids[numChildren], di)))
      ELSE \* 'centre' or 'spread'
        LET totalWidthChildren == RunLength(ws, widget, di, all) IN
        IF justify = "centre" \/ numChildren = 1
          THEN PackUp(ws, widget, di, 1,
                      Sub(Sub(Mul(Half, Add(size.range.hi, size.range.lo)),
                              Mul(Half, totalWidthChildren)),
                          OuterBuf(ws, kids[1], di)),
                      Zero)
          ELSE LET availableSpace ==
                     Sub(Extent(size), Mul(Two, size.innerBuffer.value))
                   addedSpaceBetweenChildren ==
                     Div(Sub(availableSpace, totalWidthChildren), R(numChildren - 1))
               IN PackUp(ws, widget, di, 1,
                         Sub(Add(size.range.lo, size.innerBuffer.value),
                             OuterBuf(ws, kids[1], di)),
                         addedSpaceBetweenChildren)
    ELSE
      IF justify = "toLowest"
        THEN PlaceEach(ws, widget, di, 1,
                       Add(size.range.lo, size.innerBuffer.value), "toLowest")
      ELSE IF justify = "toHighest"
        THEN PlaceEach(ws, widget, di, 1,
                       Sub(size.range.hi, size.innerBuffer.value), "toHighest")
      ELSE \* 'centre' or 'spread'
        PlaceEach(ws, widget, di, 1,
                  Mul(Half, Add(size.range.hi, size.range.lo)), "centre")

\* Geometry._calcPositionsofChildren: the tree after the call.
RECURSIVE CalcPositionsofChildren(_, _, _), CalcPositionsofKids(_, _, _, _)
CalcPositionsofKids(ws, widget, di, ci) ==
  IF ci > Len(ChildList(ws, widget)) THEN ws
  ELSE CalcPositionsofKids(
         CalcPositionsofChildren(ws, ChildList(ws, widget)[ci], di), widget, di, ci + 1)

CalcPositionsofChildren(ws, widget, di) ==
  IF ws[widget].children = None \/ Len(ChildList(ws, widget)) <= 0
    THEN ws
    ELSE CalcPositionsofKids(PlaceChildren(ws, widget, di), widget, di, 1)

\* Geometry.calcRanges: the tree after the call and the error raised.
\* A faulty calcRanges that shrinks before it checks the sizes.
CalcRangesShrinkingFirst(ws, di, epsilon) ==
  LET shrunk == ShrinkChildren(ws, rootWidget, di)
      e == CheckSizeChildren(shrunk, rootWidget, di, epsilon)
  IN IF e # NoError THEN Outcome(shrunk, e)
     ELSE LET r == ExpandChildren(shrunk, rootWidget, di) IN
          IF r.err # NoError THEN r
          ELSE Outcome(CalcPositionsofChildren(r.ws, rootWidget, di), NoError)

CalcRangesOutcome(ws, di, epsilon) ==
  LET e == CheckSizeChildren(ws, rootWidget, di, epsilon) IN
  IF e # NoError THEN Outcome(ws, e)
  ELSE LET r == ExpandChildren(ShrinkChildren(ws, rootWidget, di), rootWidget, di) IN
       IF r.err # NoError THEN r
       ELSE Outcome(CalcPositionsofChildren(r.ws, rootWidget, di), NoError)

\* Geometry.__init__: the tree after the call and the error raised.
GeometryOutcome(ws) ==
  LET e == CheckAxes(ws, 0, MaxNumDims(ws)) IN
  IF e # NoError THEN Outcome(ws, e)
  ELSE Outcome(SetBuffersForChildren(ws, rootWidget,
                                     MaxRootSize(ws, 0, MaxNumDims(ws), Zero)),
               NoError)

\* ------------------------------------------------------------ trees
\* The trees the host application builds before it constructs a Geometry.
\* Two shapes over two axes:
\*   flat:  1 -> <<2, 3>>; 2 is no frame; 3 is no frame or a frame without children
\*   deep:  1 -> <<2>>; 2 -> <<3, 4>>; 3 and 4 are no frames
Axes == {0, 1}
Demands == {"shrinkToFit", "exact", "expandToFit"}
Justifies == {"toLowest", "toHighest", "centre", "spread"}
Shapes == {"flat", "deep"}
Ids(shape) == IF shape = "flat" THEN 1..3 ELSE 1..4

\* Extents of the root on the axis under study and on the other axis.
RootExtent == R(4)
OtherRootExtent == R(6)
ChildExtents == {R(n) : n \in 1..MaxExtent}

\* Buffer arrangements of one axis: the inner buffer of every frame and the
\* outer buffers of a first and of a second child.
BufferPlan(inner, first, second) ==
  [inner |-> inner, first |-> first, second |-> second]
PlainPlan ==
  BufferPlan(Buffer(Zero, "asFrac"), Buffer(Zero, "asFrac"), Buffer(Zero, "asFrac"))
BufferPlans ==
  { PlainPlan,
    BufferPlan(Buffer(<<1, 12>>, "asFrac"), Buffer(<<1, 12>>, "asFrac"),
               Buffer(R(1), "world")),
    BufferPlan(Buffer(R(3), "world"), Buffer(Zero, "world"), Buffer(Zero, "world")) }

\* The place of a widget among its siblings, per shape.
PlaceOf(shape, w) ==
  IF shape = "flat" THEN (IF w = 2 THEN 1 ELSE 2) ELSE (IF w = 4 THEN 2 ELSE 1)

SizeFrom(shape, w, demand, maxExtent, plan, justify) ==
  WidgetSize(demand,
             maxExtent,
             IF w = rootWidget THEN Buffer(Zero, "asFrac")
             ELSE IF PlaceOf(shape, w) = 1 THEN plan.first ELSE plan.second,
             plan.inner,
             justify)

ChildrenFrom(shape, w, dirs, frame3) ==
  IF shape = "flat"
    THEN IF w = 1 THEN Children(<<2, 3>>, dirs[1])
         ELSE IF w = 3 /\ frame3 THEN Children(<<>>, dirs[2])
         ELSE None
    ELSE IF w = 1 THEN Children(<<2>>, dirs[1])
         ELSE IF w = 2 THEN Children(<<3, 4>>, dirs[2])
         ELSE None

\* A tree from its shape, the sequence directions of its (at most two) frames
\* and, per axis, the WidgetSize of every widget.
Tree(shape, dirs, frame3, sizes) ==
  [w \in Ids(shape) |->
     Widget([di \in Axes |-> sizes[di][w]], ChildrenFrom(shape, w, dirs, frame3))]

\* The maxExtent arguments a tree family may give: an exact widget is given an
\* extent; the root is always given one; any other widget is given one or
\* None as `given` says.
ExtentsAllowed(shape, demand, extent, rootExtent, given) ==
  \A w \in Ids(shape) :
     extent[w] \in (IF w = rootWidget THEN {rootExtent}
                    ELSE IF demand[w] = "exact" THEN ChildExtents
                    ELSE IF given THEN {R(1)} ELSE {NoExtent})

AxisOf(shape, demand, extent, plan, justify) ==
  [w \in Ids(shape) |-> SizeFrom(shape, w, demand[w], extent[w], plan, justify)]

\* An axis on which every widget is exact: root 6, every other widget 1.
QuietAxis(shape) ==
  AxisOf(shape, [w \in Ids(shape) |-> "exact"],
         [w \in Ids(shape) |-> IF w = rootWidget THEN OtherRootExtent ELSE R(1)],
         PlainPlan, "centre")

\* Layout trees: axis 0 takes every combination of demands, extents, buffer
\* plan and justification; axis 1 is quiet.
IsLayoutTree(tree) ==
  \E shape \in Shapes :
  \E dirs \in [1..2 -> Axes],
     frame3 \in (IF shape = "flat" THEN BOOLEAN ELSE {FALSE}),
     demand \in [Ids(shape) -> Demands],
     extent \in [Ids(shape) -> {NoExtent, RootExtent} \cup ChildExtents],
     plan \in BufferPlans, justify \in Justifies :
       /\ ExtentsAllowed(shape, demand, extent, RootExtent, FALSE)
       /\ (shape = "flat" /\ ~frame3) => dirs[2] = 0
       /\ tree = Tree(shape, dirs, frame3,
                      [di \in Axes |-> IF di = 0
                                         THEN AxisOf(shape, demand, extent, plan, justify)
                                         ELSE QuietAxis(shape)])

\* Legality trees: every combination of demands on axis 0 and, on axis 1, of
\* the demands of the root and of the last widget; widgets that are not exact
\* are all given a maxExtent or all given none (the root included).
IsLegalityTree(tree) ==
  \E shape \in Shapes :
  \E frame3 \in (IF shape = "flat" THEN BOOLEAN ELSE {FALSE}),
     demand0 \in [Ids(shape) -> Demands],
     ofRoot \in Demands, ofLast \in Demands, given \in BOOLEAN :
       LET last1 == CHOOSE w \in Ids(shape) : \A v \in Ids(shape) : v <= w
           demand1 == [w \in Ids(shape) |->
                         IF w = rootWidget THEN ofRoot
                         ELSE IF w = last1 THEN ofLast ELSE "exact"]
           extents(demand, rootExtent) ==
             [w \in Ids(shape) |->
                IF demand[w] # "exact" /\ ~given THEN NoExtent
                ELSE IF w = rootWidget THEN rootExtent ELSE R(1)]
       IN tree = Tree(shape, [i \in 1..2 |-> i - 1], frame3,
                      [di \in Axes |->
                         IF di = 0
                           THEN AxisOf(shape, demand0, extents(demand0, RootExtent),
                                       PlainPlan, "spread")
                           ELSE AxisOf(shape, demand1, extents(demand1, OtherRootExtent),
                                       PlainPlan, "spread")])

\* Buffer trees: deep trees of exact widgets in which every widget chooses the
\* style of its inner and of its outer buffers; the buffer values differ per
\* axis, and the root extents are drawn from RootExtentPairs.
Styles == {"asFrac", "world"}
RootExtentPairs == {<<R(4), R(6)>>, <<R(6), R(4)>>, <<R(-2), R(-1)>>}
IsBufferTree(tree) ==
  \E innerStyle \in [Ids("deep") -> Styles], outerStyle \in [Ids("deep") -> Styles],
     rootExtents \in RootExtentPairs :
       tree = Tree("deep", [i \in 1..2 |-> i - 1], FALSE,
                   [di \in Axes |-> [w \in Ids("deep") |->
                      WidgetSize("exact",
                                 IF w = rootWidget THEN rootExtents[di + 1] ELSE R(1),
                                 Buffer(<<1, 4 + di>>, outerStyle[w]),
                                 Buffer(<<1, 12 + di>>, innerStyle[w]),
                                 "toLowest")]])

\* Scenario trees: an exact root of extent 1 holding two exact widgets of
\* extent 3/5 each, with every choice of sequence direction, buffer plan and
\* justification on both axes.
IsScenarioTree(tree) ==
  \E dir \in Axes, plan \in BufferPlans, justify \in Justifies :
     tree = Tree("flat", [i \in 1..2 |-> dir], FALSE,
                 [di \in Axes |->
                    AxisOf("flat", [w \in Ids("flat") |-> "exact"],
                           [w \in Ids("flat") |->
                              IF w = rootWidget THEN R(1) ELSE <<3, 5>>],
                           plan, justify)])

\* Worked trees: sizes in world units, axis 1 given to every widget as exact.
WorldSize(spaceDemand, maxExtent, outerBuffer, innerBuffer, childrenJustify) ==
  WidgetSize(spaceDemand, maxExtent, Buffer(outerBuffer, "world"),
             Buffer(innerBuffer, "world"), childrenJustify)
TwoAxes(size0, size1) == [di \in Axes |-> IF di = 0 THEN size0 ELSE size1]

\* A root of 10 x 8 with inner buffer 0 holding one leaf of 4 x 3, 'centre'
\* on both axes, the root's children in sequence along dir.
CentredLeafTree(dir) ==
  [w \in 1..2 |->
     IF w = rootWidget
       THEN Widget(TwoAxes(WorldSize("exact", R(10), Zero, Zero, "centre"),
                           WorldSize("exact", R(8), Zero, Zero, "centre")),
                   Children(<<2>>, dir))
       ELSE Widget(TwoAxes(WorldSize("exact", R(4), Zero, Zero, "centre"),
                           WorldSize("exact", R(3), Zero, Zero, "centre")),
                   None)]

\* A root of extent 10 on axis 0 holding, in sequence along axis 0, an exact
\* leaf of extent 4 and an expandToFit leaf, every buffer zero.
ExpandingLeafTree(justify) ==
  [w \in 1..3 |->
     IF w = rootWidget
       THEN Widget(TwoAxes(WorldSize("exact", R(10), Zero, Zero, justify),
                           WorldSize("exact", R(8), Zero, Zero, "centre")),
                   Children(<<2, 3>>, 0))
     ELSE IF w = 2
       THEN Widget(TwoAxes(WorldSize("exact", R(4), Zero, Zero, justify),
                           WorldSize("exact", R(1), Zero, Zero, "centre")),
                   None)
       ELSE Widget(TwoAxes(WorldSize("expandToFit", NoExtent, Zero, Zero, justify),
                           WorldSize("exact", R(1), Zero, Zero, "centre")),
                   None)]

\* A shrinkToFit frame with inner buffer 0.2 holding, in sequence along axis
\* 0, exact leaves of extent 2 and 3 with outer buffer 0.1 each; the frame is
\* the only child of an exact root of extent 10.
ShrinkingFrameTree(justify) ==
  [w \in 1..4 |->
     IF w = rootWidget
       THEN Widget(TwoAxes(WorldSize("exact", R(10), Zero, Zero, justify),
                           WorldSize("exact", R(8), Zero, Zero, "centre")),
                   Children(<<2>>, 0))
     ELSE IF w = 2
       THEN Widget(TwoAxes(WorldSize("shrinkToFit", NoExtent, <<1, 10>>, <<1, 5>>, justify),
                           WorldSize("exact", R(1), Zero, Zero, "centre")),
                   Children(<<3, 4>>, 0))
       ELSE Widget(TwoAxes(WorldSize("exact", IF w = 3 THEN R(2) ELSE R(3),
                                     <<1, 10>>, Zero, justify),
                           WorldSize("exact", R(1), Zero, Zero, "centre")),
                   None)]

IsWorkedTree(tree) ==
  \/ \E dir \in Axes : tree = CentredLeafTree(dir)
  \/ \E justify \in Justifies : tree = ExpandingLeafTree(justify)
  \/ \E justify \in Justifies : tree = ShrinkingFrameTree(justify)

\* ------------------------------------------------------------ the program
VARIABLES
  widgets,   \* the widget tree: widget -> [sizes, children]
  built,     \* the widget tree as the host built it
  geom,      \* the Geometry object: None, or [epsilon] once constructed
  err,       \* the error the last call raised (NoError if it returned)
  last,      \* the last call: [op, di]
  before,    \* the widget tree as it was when the last call was made
  calls,     \* the number of calcRanges calls made so far
  buf,       \* a Buffer object of its own, on which setWorld is called
  made,      \* that Buffer as Buffer(value, style) made it
  scales,    \* the arguments of the setWorld calls made on it, in order
  hueGraph,  \* a _HueGraph object: [firstH, lastH, internalList, numPoints]
  history,   \* an ActionHistory object: [actionList, numUndoableActions, numRedoableActions]
  returned   \* what the last call on the ActionHistory returned

vars == <<widgets, built, geom, err, last, before, calls, buf, made, scales,
          hueGraph, history, returned>>

\* The epsilon arguments: a small tolerance as the default (1.0e-7) is, and
\* the 2 the self-test passes.
Epsilons == {<<1, 1000>>, R(2)}

Call(op, di) == [op |-> op, di |-> di]

InitTree ==
  /\ hueGraph = None
  /\ history = None
  /\ returned = None
  /\ built = widgets
  /\ geom = None
  /\ err = NoError
  /\ last = Call("build", -1)
  /\ before = widgets
  /\ calls = 0

Init ==
  /\ \/ IsLayoutTree(widgets)
     \/ IsLegalityTree(widgets)
     \/ IsBufferTree(widgets)
     \/ IsScenarioTree(widgets)
     \/ IsWorkedTree(widgets)
  /\ InitTree
  /\ buf = Buffer(Zero, "asFrac")
  /\ made = buf
  /\ scales = <<>>

\* geob = Geometry(rootWidget, epsilon)
Construct(epsilon) ==
  /\ last.op = "build"
  /\ \E r \in {GeometryOutcome(widgets)} :
       /\ widgets' = r.ws
       /\ err' = r.err
       /\ geom' = IF r.err = NoError THEN [epsilon |-> epsilon] ELSE None
  /\ last' = Call("Geometry", -1)
  /\ before' = widgets
  /\ UNCHANGED <<built, calls, buf, made, scales, hueGraph, history, returned>>

\* geob.calcRanges(di)
CalcRanges(di) ==
  /\ geom # None
  /\ calls < MaxCalls
  /\ \E r \in {CalcRangesOutcome(widgets, di, geom.epsilon)} :
       /\ widgets' = r.ws
       /\ err' = r.err
  /\ last' = Call("calcRanges", di)
  /\ before' = widgets
  /\ calls' = calls + 1
  /\ UNCHANGED <<built, geom, buf, made, scales, hueGraph, history, returned>>

Next ==
  \/ \E epsilon \in Epsilons : Construct(epsilon)
  \/ \E di \in Axes : CalcRanges(di)

Spec == Init /\ [][Next]_vars

\* The layout trees of the flat shape.
IsFlatLayoutTree(tree) == IsLayoutTree(tree) /\ DOMAIN tree = Ids("flat")

\* A host that builds a flat layout tree, a legality tree or a scenario tree.
InitLayout ==
  /\ \/ IsFlatLayoutTree(widgets)
     \/ IsLegalityTree(widgets)
     \/ IsScenarioTree(widgets)
  /\ InitTree
  /\ buf = Buffer(Zero, "asFrac")
  /\ made = buf
  /\ scales = <<>>

SpecLayout == InitLayout /\ [][Next]_vars

\* Ranged trees: flat trees in which every widget takes every demand on axis
\* 0 and every WidgetSize is given a maxExtent, so that each has a range
\* whatever its demand; axis 1 is quiet.
IsRangedTree(tree) ==
  \E dirs \in [1..2 -> Axes], frame3 \in BOOLEAN,
     demand \in [Ids("flat") -> Demands],
     extent \in [Ids("flat") -> {RootExtent} \cup ChildExtents],
     plan \in BufferPlans, justify \in Justifies :
       /\ ExtentsAllowed("flat", demand, extent, RootExtent, TRUE)
       /\ ~frame3 => dirs[2] = 0
       /\ tree = Tree("flat", dirs, frame3,
                      [di \in Axes |-> IF di = 0
                                         THEN AxisOf("flat", demand, extent, plan, justify)
                                         ELSE QuietAxis("flat")])

InitPlace ==
  /\ IsRangedTree(widgets)
  /\ InitTree
  /\ buf = Buffer(Zero, "asFrac")
  /\ made = buf
  /\ scales = <<>>

\* geob._calcPositionsofChildren(geob.rootWidget, di), called by the host
\* itself on a tree in which every WidgetSize has a range.
CalcPositions(di) ==
  /\ geom # None
  /\ calls < MaxCalls
  /\ widgets' = CalcPositionsofChildren(widgets, rootWidget, di)
  /\ err' = NoError
  /\ last' = Call("_calcPositionsofChildren", di)
  /\ before' = widgets
  /\ calls' = calls + 1
  /\ UNCHANGED <<built, geom, buf, made, scales, hueGraph, history, returned>>

NextPlace ==
  \/ \E epsilon \in Epsilons : Construct(epsilon)
  \/ \E di \in Axes : CalcPositions(di)

SpecPlace == InitPlace /\ [][NextPlace]_vars

\* ------------------------------------------------------------ Buffer alone
\* A Buffer made with any value and style, then setWorld called on it up to
\* MaxSets times with any scales.
MaxSets == 2
BufferValues == {R(-1), Zero, <<1, 50>>, <<1, 4>>, Half, R(1), R(3)}
Scales == {R(-2), Zero, Half, R(1), R(4), <<13, 2>>}

InitBuffer ==
  /\ widgets = [w \in {rootWidget} |->
                  Widget([di \in Axes |->
                            WidgetSize("exact", RootExtent, Buffer(Zero, "asFrac"),
                                       Buffer(Zero, "asFrac"), "spread")], None)]
  /\ InitTree
  /\ \E value \in BufferValues, style \in Styles : buf = Buffer(value, style)
  /\ made = buf
  /\ scales = <<>>

\* buf.setWorld(guiMaxExtent)
CallSetWorld(guiMaxExtent) ==
  /\ Len(scales) < MaxSets
  /\ buf' = SetWorld(buf, guiMaxExtent)
  /\ scales' = Append(scales, guiMaxExtent)
  /\ UNCHANGED <<widgets, built, geom, err, last, before, calls, made, hueGraph, history, returned>>

NextBuffer == \E guiMaxExtent \in Scales : CallSetWorld(guiMaxExtent)

SpecBuffer == InitBuffer /\ [][NextBuffer]_vars

\* ------------------------------------------------------------ the host
\* WidgetSize.__init__ with its raise statements: the object made, or the
\* error raised. A buffer argument left out (None) becomes Buffer(0.0).
WidgetSizeOutcome(spaceDemand, maxExtent, outerBuffer, innerBuffer, childrenJustify) ==
  IF spaceDemand \notin Demands
    THEN [size |-> None, err |-> Error("BadDemandState", -1, 0, 0)]
  ELSE IF spaceDemand = "exact" /\ maxExtent = NoExtent
    THEN [size |-> None, err |-> Error("ExactNeedsMaxExtent", -1, 0, 0)]
  ELSE IF childrenJustify \notin Justifies
    THEN [size |-> None, err |-> Error("BadJustify", -1, 0, 0)]
  ELSE [size |-> WidgetSize(spaceDemand, maxExtent,
                            IF outerBuffer = None THEN Buffer(Zero, "asFrac")
                                                  ELSE outerBuffer,
                            IF innerBuffer = None THEN Buffer(Zero, "asFrac")
                                                  ELSE innerBuffer,
                            childrenJustify),
        err |-> NoError]

\* The arguments a host may pass: the three demand states and a string that
\* is none of them, a maxExtent left out, negative, zero or positive, a
\* buffer left out or given, the four justifications and a string that is none.
DemandArgs == Demands \cup {"fill"}
MaxExtentArgs == {NoExtent, R(-1), Zero, R(1)}
BufferArgs == {None, Buffer(<<1, 10>>, "world")}
JustifyArgs == Justifies \cup {"left"}

\* The host starts a root widget without any WidgetSize in its sizes list.
InitHost ==
  /\ widgets = [w \in {rootWidget} |-> Widget(<<>>, None)]
  /\ InitTree
  /\ buf = Buffer(Zero, "asFrac")
  /\ made = buf
  /\ scales = <<>>

\* sizes.append(WidgetSize(...)): the next axis of the root widget gets its
\* WidgetSize, unless the constructor raises.
NewWidgetSize(spaceDemand, maxExtent, outerBuffer, innerBuffer, childrenJustify) ==
  LET sizes == widgets[rootWidget].sizes
      di == Cardinality(DOMAIN sizes)
      r == WidgetSizeOutcome(spaceDemand, maxExtent, outerBuffer, innerBuffer,
                             childrenJustify)
  IN /\ di < Cardinality(Axes)
     /\ err = NoError
     /\ err' = r.err
     /\ widgets' = IF r.err # NoError THEN widgets
                   ELSE [widgets EXCEPT ![rootWidget].sizes =
                           [dj \in 0..di |-> IF dj < di THEN sizes[dj] ELSE r.size]]
     /\ built' = widgets'
     /\ last' = Call("WidgetSize", di)
     /\ before' = widgets
     /\ UNCHANGED <<geom, calls, buf, made, scales, hueGraph, history, returned>>

NextHost ==
  \E spaceDemand \in DemandArgs, maxExtent \in MaxExtentArgs,
     outerBuffer \in BufferArgs, innerBuffer \in BufferArgs,
     childrenJustify \in JustifyArgs :
       NewWidgetSize(spaceDemand, maxExtent, outerBuffer, innerBuffer, childrenJustify)

SpecHost == InitHost /\ [][NextHost]_vars

\* ------------------------------------------------------------ _HueGraph
One == R(1)
HueGraph(firstH, lastH, internalList) ==
  [firstH |-> firstH, lastH |-> lastH, internalList |-> internalList,
   numPoints |-> 2 + Len(internalList)]

\* _HueGraph.__init__: the object made, or the error raised.
HueGraphOutcome(firstH, lastH) ==
  IF Lt(firstH, Zero) \/ Gt(firstH, One) \/ Lt(lastH, Zero) \/ Gt(lastH, One)
    THEN [graph |-> None, err |-> Error("HueOutOfRange", -1, 0, 0)]
    ELSE [graph |-> HueGraph(firstH, lastH, <<>>), err |-> NoError]

\* A value a method computed, or the error it raised.
Value(value) == [value |-> value, err |-> NoError]
Raised(kind) == [value |-> None, err |-> Error(kind, -1, 0, 0)]

\* _HueGraph.__getitem__: the (C, H) pair number elementI, counted from 0,
\* or from the end when elementI is negative.
GetItem(graph, elementI) ==
  LET i == IF elementI < 0 THEN graph.numPoints + elementI ELSE elementI IN
  IF i < 0 \/ i > graph.numPoints - 1 THEN Raised("BadElementNumber")
  ELSE IF i = 0 THEN Value(<<Zero, graph.firstH>>)
  ELSE IF i = graph.numPoints - 1 THEN Value(<<One, graph.lastH>>)
  ELSE Value(graph.internalList[i])

\* A faulty check that does not look at the subsequent element.
CheckCiValueAgainstPreviousOnly(graph, ciFrac, prevElementI, nextElementI, force) ==
  LET prevCiFrac == GetItem(graph, prevElementI).value[1] IN
  IF Lt(ciFrac, prevCiFrac)
    THEN IF force THEN Value(prevCiFrac) ELSE Raised("CiBelowPrevious")
    ELSE Value(ciFrac)

\* _HueGraph._checkCiValue
CheckCiValue(graph, ciFrac, prevElementI, nextElementI, force) ==
  LET prevCiFrac == GetItem(graph, prevElementI).value[1]
      nextCiFrac == GetItem(graph, nextElementI).value[1]
  IN IF Lt(ciFrac, prevCiFrac)
       THEN IF force THEN Value(prevCiFrac) ELSE Raised("CiBelowPrevious")
     ELSE IF Gt(ciFrac, nextCiFrac)
       THEN IF force THEN Value(nextCiFrac) ELSE Raised("CiAboveNext")
     ELSE Value(ciFrac)

\* _HueGraph._checkHueFrac
CheckHueFrac(hueFrac, force) ==
  IF Lt(hueFrac, Zero)
    THEN IF force THEN Value(Zero) ELSE Raised("HueOutOfRange")
  ELSE IF Gt(hueFrac, One)
    THEN IF force THEN Value(One) ELSE Raised("HueOutOfRange")
  ELSE Value(hueFrac)

\* list.insert(i, x) and list.pop(i) of Python, i counted from 0 and within the list.
ListInsert(list, i, x) ==
  [k \in 1..(Len(list) + 1) |->
     IF k <= i THEN list[k] ELSE IF k = i + 1 THEN x ELSE list[k - 1]]
ListPop(list, i) ==
  [k \in 1..(Len(list) - 1) |-> IF k <= i THEN list[k] ELSE list[k + 1]]

\* _HueGraph.insert: the graph after the call and the error raised.
InsertOutcome(graph, elementToReplaceI, chTuple, force) ==
  IF elementToReplaceI < 1 \/ elementToReplaceI > graph.numPoints - 1
    THEN [graph |-> graph, err |-> Error("BadElementNumber", -1, 0, 0)]
  ELSE
    LET localCiFrac == CheckCiValue(graph, chTuple[1], elementToReplaceI - 1,
                                    elementToReplaceI, force)
        localHueFrac == CheckHueFrac(chTuple[2], force)
    IN IF localCiFrac.err # NoError THEN [graph |-> graph, err |-> localCiFrac.err]
       ELSE IF localHueFrac.err # NoError THEN [graph |-> graph, err |-> localHueFrac.err]
       ELSE [graph |-> HueGraph(graph.firstH, graph.lastH,
                                ListInsert(graph.internalList, elementToReplaceI - 1,
                                           <<localCiFrac.value, localHueFrac.value>>)),
             err |-> NoError]

\* _HueGraph.delete: the graph after the call and the error raised; pop()
\* raises an IndexError for an index that is not in the internal list.
DeleteOutcome(graph, elementI) ==
  IF elementI < 1
    THEN [graph |-> graph, err |-> Error("CannotDeleteFirst", -1, 0, 0)]
  ELSE IF elementI > graph.numPoints - 1
    THEN [graph |-> graph, err |-> Error("CannotDeleteLast", -1, 0, 0)]
  ELSE IF elementI - 1 >= Len(graph.internalList)
    THEN [graph |-> graph, err |-> Error("IndexError", -1, 0, 0)]
  ELSE [graph |-> HueGraph(graph.firstH, graph.lastH,
                           ListPop(graph.internalList, elementI - 1)),
        err |-> NoError]

\* _HueGraph.__setitem__: the graph after the call and the error raised.
SetItemOutcome(graph, elementI, chTuple) ==
  IF elementI < 0 \/ elementI > graph.numPoints - 1
    THEN [graph |-> graph, err |-> Error("BadElementNumber", -1, 0, 0)]
  ELSE
    LET localHueFrac == CheckHueFrac(chTuple[2], TRUE).value IN
    IF elementI = 0
      THEN [graph |-> [graph EXCEPT !.firstH = localHueFrac], err |-> NoError]
    ELSE IF elementI = graph.numPoints - 1
      THEN [graph |-> [graph EXCEPT !.lastH = localHueFrac], err |-> NoError]
    ELSE LET localCiFrac == CheckCiValue(graph, chTuple[1], elementI - 1,
                                         elementI + 1, TRUE).value
         IN [graph |-> [graph EXCEPT !.internalList[elementI] =
                                        <<localCiFrac, localHueFrac>>],
             err |-> NoError]

\* The fractions a caller may pass in a (C, H) pair: below 0, inside, above 1.
Fractions == {<<-1, 2>>, Half, <<3, 2>>}
\* The firstH and lastH a caller may pass: the defaults 0.0 and 1.0, and
\* values below 0 and above 1.
EndHues == {<<-1, 2>>, Zero, One, <<3, 2>>}
\* The element numbers a caller may pass.
ElementNumbers == -1..MaxPoints

\* The other objects of the module are not in use.
NoWidgets ==
  /\ widgets = <<>>
  /\ built = <<>>
  /\ geom = None
  /\ calls = 0
  /\ buf = Buffer(Zero, "asFrac")
  /\ made = buf
  /\ scales = <<>>

\* hueGraph = _HueGraph(firstH, lastH), for the arguments that do not raise.
InitHueGraph ==
  /\ NoWidgets
  /\ history = None
  /\ returned = None
  /\ \E firstH \in EndHues, lastH \in EndHues :
        /\ HueGraphOutcome(firstH, lastH).err = NoError
        /\ hueGraph = HueGraphOutcome(firstH, lastH).graph
  /\ err = NoError
  /\ last = Call("_HueGraph", -1)
  /\ before = hueGraph

\* The effect of a call on hueGraph that left `outcome`.
GraphCall(op, elementI, outcome) ==
  /\ hueGraph' = outcome.graph
  /\ err' = outcome.err
  /\ last' = Call(op, elementI)
  /\ before' = hueGraph
  /\ UNCHANGED <<widgets, built, geom, calls, buf, made, scales, history, returned>>

\* hueGraph.insert(elementToReplaceI, chTuple, force)
Insert(elementToReplaceI, chTuple, force) ==
  /\ hueGraph.numPoints < MaxPoints
  /\ \E outcome \in {InsertOutcome(hueGraph, elementToReplaceI, chTuple, force)} :
        GraphCall("insert", elementToReplaceI, outcome)

\* hueGraph.delete(elementI)
Delete(elementI) ==
  \E outcome \in {DeleteOutcome(hueGraph, elementI)} :
     GraphCall("delete", elementI, outcome)

\* hueGraph[elementI] = chTuple
SetItem(elementI, chTuple) ==
  \E outcome \in {SetItemOutcome(hueGraph, elementI, chTuple)} :
     GraphCall("__setitem__", elementI, outcome)

NextHueGraph ==
  \/ \E elementToReplaceI \in ElementNumbers, chTuple \in Fractions \X Fractions,
        force \in BOOLEAN : Insert(elementToReplaceI, chTuple, force)
  \/ \E elementI \in ElementNumbers : Delete(elementI)
  \/ \E elementI \in ElementNumbers, chTuple \in Fractions \X Fractions :
        SetItem(elementI, chTuple)

SpecHueGraph == InitHueGraph /\ [][NextHueGraph]_vars

\* ------------------------------------------------------------ ActionHistory
\* An _Action, told apart here by its typeStr.
Action(typeStr) == [typeStr |-> typeStr]
Actions == {Action("insert"), Action("delete"), Action("change")}

\* ActionHistory.__init__
ActionHistory ==
  [actionList |-> <<>>, numUndoableActions |-> 0, numRedoableActions |-> 0]

\* What a method left: the object after the call and the value returned.
Left(object, value) == [history |-> object, returned |-> value]

\* A faulty append that keeps the undone actions in the list.
AppendWithoutTruncating(h, action) ==
  Left([actionList |-> Append(h.actionList, action),
        numUndoableActions |-> h.numUndoableActions + 1,
        numRedoableActions |-> 0],
       None)

\* ActionHistory.append
AppendOutcome(h, action) ==
  LET actionList == IF h.numRedoableActions > 0
                      THEN SubSeq(h.actionList, 1, h.numUndoableActions)
                      ELSE h.actionList
  IN Left([actionList |-> Append(actionList, action),
           numUndoableActions |-> h.numUndoableActions + 1,
           numRedoableActions |-> 0],
          None)

\* ActionHistory.getLast, chosen when undoing; actionList[i] of Python is
\* element i + 1 here.
GetLastOutcome(h) ==
  IF h.numUndoableActions <= 0 THEN Left(h, None)
  ELSE LET numUndoableActions == h.numUndoableActions - 1 IN
       Left([h EXCEPT !.numUndoableActions = numUndoableActions,
                      !.numRedoableActions = h.numRedoableActions + 1],
            h.actionList[numUndoableActions + 1])

\* ActionHistory.getNext, chosen when redoing.
GetNextOutcome(h) ==
  IF h.numRedoableActions <= 0 THEN Left(h, None)
  ELSE LET numUndoableActions == h.numUndoableActions + 1 IN
       Left([h EXCEPT !.numUndoableActions = numUndoableActions,
                      !.numRedoableActions = h.numRedoableActions - 1],
            h.actionList[(numUndoableActions - 1) + 1])

\* history = ActionHistory()
InitHistory ==
  /\ NoWidgets
  /\ hueGraph = None
  /\ history = ActionHistory
  /\ returned = None
  /\ err = NoError
  /\ last = Call("ActionHistory", -1)
  /\ before = history

\* The effect of a call on history that left `outcome`.
HistoryCall(call, outcome) ==
  /\ history' = outcome.history
  /\ returned' = outcome.returned
  /\ err' = NoError
  /\ last' = call
  /\ before' = history
  /\ UNCHANGED <<widgets, built, geom, calls, buf, made, scales, hueGraph>>

\* history.append(action), while the list stays within MaxActions
HistoryAppend(action) ==
  \E outcome \in {AppendOutcome(history, action)} :
     /\ Len(outcome.history.actionList) <= MaxActions
     /\ HistoryCall([op |-> "append", di |-> -1, action |-> action], outcome)

\* history.getLast()
GetLast == HistoryCall(Call("getLast", -1), GetLastOutcome(history))

\* history.getNext()
GetNext == HistoryCall(Call("getNext", -1), GetNextOutcome(history))

NextHistory ==
  \/ \E action \in Actions : HistoryAppend(action)
  \/ GetLast
  \/ GetNext

SpecHistory == InitHistory /\ [][NextHistory]_vars

\* ------------------------------------------------------------ claims
\* Vocabulary of the claims, stated over a tree t without the solver's code.
AxesOf(t) == DOMAIN t[rootWidget].sizes
KidsOf(t, p) ==
  IF t[p].children = None THEN {}
  ELSE {t[p].children.childList[ci] : ci \in 1..Len(t[p].children.childList)}
IsLeaf(t, w) == t[w].children = None
Declares(t, w, di, demand) == t[w].sizes[di].spaceDemand = demand
LeafDeclaresShrink(t, di) ==
  \E w \in DOMAIN t : IsLeaf(t, w) /\ Declares(t, w, di, "shrinkToFit")
ExpandUnderShrink(t, di) ==
  \E p \in DOMAIN t : \E c \in KidsOf(t, p) :
     Declares(t, p, di, "shrinkToFit") /\ Declares(t, c, di, "expandToFit")
RootDeclaresExpand(t, di) == Declares(t, rootWidget, di, "expandToFit")
\* Nothing on axis di makes the constructor raise.
AxisAccepted(t, di) ==
  /\ ~RootDeclaresExpand(t, di)
  /\ ~LeafDeclaresShrink(t, di)
  /\ ~ExpandUnderShrink(t, di)
  /\ t[rootWidget].sizes[di].range # None

RangeOf(t, w, di) == t[w].sizes[di].range
ExtentIn(t, w, di) == Sub(RangeOf(t, w, di).hi, RangeOf(t, w, di).lo)
BuffersOf(t, w, di) == {t[w].sizes[di].innerBuffer, t[w].sizes[di].outerBuffer}
BuffersNonNegative(t) ==
  \A w \in DOMAIN t : \A di \in AxesOf(t) : \A b \in BuffersOf(t, w, di) :
     Ge(b.value, Zero)
ExactExtentsNonNegative(t) ==
  \A w \in DOMAIN t : \A di \in AxesOf(t) :
     Declares(t, w, di, "exact") => Ge(ExtentIn(t, w, di), Zero)
\* The frames whose children are laid in sequence along di.
IsSequenceFrame(t, p, di) ==
  /\ t[p].children # None
  /\ t[p].children.childSequenceDir = di
  /\ Len(t[p].children.childList) >= 1

RECURSIVE SumOfFn(_)
SumOfFn(f) ==
  IF DOMAIN f = {} THEN Zero
  ELSE LET x == CHOOSE y \in DOMAIN f : TRUE
       IN Add(f[x], SumOfFn([y \in DOMAIN f \ {x} |-> f[y]]))

Constructed == last.op = "Geometry"
ConstructionFailed == err # NoError /\ geom = None /\ calls = 0
Solved(di) == last = Call("calcRanges", di) /\ err = NoError

\* C1 as stated: after a calcRanges(di) that returned, in a tree built with
\* buffers >= 0, every widget lies within its parent on di, up to epsilon.
C1_AsStated ==
  \A di \in AxesOf(built) :
     (Solved(di) /\ BuffersNonNegative(built)) =>
        \A p \in DOMAIN widgets : \A w \in KidsOf(widgets, p) :
           /\ Le(Sub(RangeOf(widgets, p, di).lo, geom.epsilon), RangeOf(widgets, w, di).lo)
           /\ Le(RangeOf(widgets, w, di).hi, Add(RangeOf(widgets, p, di).hi, geom.epsilon))

\* C2 as stated: after a calcRanges(di) that returned, in a tree built with
\* buffers >= 0, any two children of a frame whose sequence direction is di
\* are disjoint on di and at least half the sum of their outer buffers apart.
C2_AsStated ==
  \A di \in AxesOf(built) :
     (Solved(di) /\ BuffersNonNegative(built)) =>
        \A p \in DOMAIN widgets : IsSequenceFrame(widgets, p, di) =>
           \A i, j \in 1..Len(widgets[p].children.childList) : i < j =>
              LET a == widgets[p].children.childList[i]
                  b == widgets[p].children.childList[j]
                  gap == Sub(RangeOf(widgets, b, di).lo, RangeOf(widgets, a, di).hi)
              IN /\ Ge(gap, Zero)
                 /\ Ge(gap, Mul(Half, Add(widgets[a].sizes[di].outerBuffer.value,
                                          widgets[b].sizes[di].outerBuffer.value)))

\* C3: after a calcRanges(di) that returned, every widget of the tree is
\* 'exact' on di and has a range on di.
C3_PolicyClosure ==
  \A di \in AxesOf(built) :
     Solved(di) =>
        \A w \in DOMAIN widgets :
           Declares(widgets, w, di, "exact") /\ RangeOf(widgets, w, di) # None

C3_Witness ==
  /\ Solved(0)
  /\ calls = 1
  /\ \E w \in DOMAIN before : Declares(before, w, 0, "shrinkToFit")
                              /\ RangeOf(before, w, 0) = None
  /\ \E w \in DOMAIN before : Declares(before, w, 0, "expandToFit")
                              /\ RangeOf(before, w, 0) = None
  /\ \A w \in DOMAIN widgets : Declares(widgets, w, 0, "exact")

\* C4 as stated: after a calcRanges(di) that returned, in a tree built with
\* buffers >= 0 and exact extents >= 0, every range on di has hi >= lo.
C4_AsStated ==
  \A di \in AxesOf(built) :
     (Solved(di) /\ BuffersNonNegative(built) /\ ExactExtentsNonNegative(built)) =>
        \A w \in DOMAIN widgets :
           Ge(RangeOf(widgets, w, di).hi, RangeOf(widgets, w, di).lo)

\* C5: setWorld on a Buffer made fractional with value v leaves value v*scale
\* and style 'world', and every later setWorld call, with any scale, changes
\* nothing: after one or more calls the buffer is what the first call alone
\* made it (a Buffer made in 'world' style is never changed).
C5_SetWorldOnlyFirstCallCounts ==
  Len(scales) >= 1 =>
    /\ made.style = "asFrac" => buf = Buffer(Mul(made.value, scales[1]), "world")
    /\ made.style = "world" => buf = made

C5_Witness ==
  /\ Len(scales) = 2
  /\ made.style = "asFrac"
  /\ made.value = <<1, 50>>
  /\ scales = <<<<13, 2>>, R(4)>>
  /\ buf = Buffer(<<13, 100>>, "world")

\* C7: if a widget without a children descriptor declares shrinkToFit on some
\* axis, the Geometry constructor raises, no Geometry object exists and so no
\* calcRanges call is ever made on the tree.
C7_LeafCannotShrink ==
  (\E di \in AxesOf(built) : LeafDeclaresShrink(built, di)) =>
     /\ geom = None
     /\ calls = 0
     /\ Constructed => err # NoError

C7_Witness ==
  /\ Constructed
  /\ err = Error("LeafCannotShrink", 1, 4, 0)
  /\ \A w \in DOMAIN built : Declares(built, w, 0, "exact")

\* C8 as stated: if the root declares expandToFit on axis di, the constructor
\* raises the root-cannot-expand error naming di and the root.
C8_AsStated ==
  \A di \in AxesOf(built) :
     (Constructed /\ RootDeclaresExpand(built, di)) =>
        err = Error("RootCannotExpand", di, rootWidget, 0)

\* C8 amended: if the root declares expandToFit on axis di the constructor
\* raises, also when the root was given a maxExtent; the error is the
\* root-cannot-expand error naming di and the root when no lower-numbered
\* axis makes the constructor raise first.
C8_RootCannotExpand ==
  \A di \in AxesOf(built) :
     (Constructed /\ RootDeclaresExpand(built, di)) =>
        /\ ConstructionFailed
        /\ (\A dj \in AxesOf(built) : dj < di => AxisAccepted(built, dj)) =>
              err = Error("RootCannotExpand", di, rootWidget, 0)

C8_Witness ==
  /\ Constructed
  /\ RootDeclaresExpand(built, 1)
  /\ built[rootWidget].sizes[1].range # None
  /\ AxisAccepted(built, 0)
  /\ err = Error("RootCannotExpand", 1, rootWidget, 0)

\* C9: if some widget declares shrinkToFit on an axis on which one of its
\* direct children declares expandToFit, the constructor raises; so in a tree
\* a Geometry object exists for, no shrinkToFit widget has an expandToFit
\* child on the same axis, neither as built nor at any time later.
C9_ExpandUnderShrink ==
  \A di \in AxesOf(built) :
     /\ (Constructed /\ ExpandUnderShrink(built, di)) => ConstructionFailed
     /\ geom # None => ~ExpandUnderShrink(built, di) /\ ~ExpandUnderShrink(widgets, di)

C9_Witness ==
  /\ Constructed
  /\ err = Error("ExpandUnderShrink", 0, 2, 4)
  /\ Declares(built, rootWidget, 0, "exact")

\* The scale of C6: the largest extent of the root over all axes.
LargestRootExtent(t) ==
  CHOOSE m \in {ExtentIn(t, rootWidget, di) : di \in AxesOf(t)} :
     \A di \in AxesOf(t) : Le(ExtentIn(t, rootWidget, di), m)

BuffersScaledBy(M) ==
  \A w \in DOMAIN built : \A di \in AxesOf(built) :
     /\ widgets[w].sizes[di].innerBuffer =
          Buffer(IF built[w].sizes[di].innerBuffer.style = "asFrac"
                   THEN Mul(built[w].sizes[di].innerBuffer.value, M)
                   ELSE built[w].sizes[di].innerBuffer.value, "world")
     /\ widgets[w].sizes[di].outerBuffer =
          Buffer(IF built[w].sizes[di].outerBuffer.style = "asFrac"
                   THEN Mul(built[w].sizes[di].outerBuffer.value, M)
                   ELSE built[w].sizes[di].outerBuffer.value, "world")

SpaceNeeded(t, di) ==
  LET kids == t[rootWidget].children.childList
      n == Len(kids)
  IN Add(Sub(Sub(SumOfFn([ci \in 1..n |->
                    Add(IF Declares(t, kids[ci], di, "exact")
                          THEN ExtentIn(t, kids[ci], di) ELSE Zero,
                        Mul(Two, t[kids[ci]].sizes[di].outerBuffer.value))]),
                 t[kids[1]].sizes[di].outerBuffer.value),
             t[kids[n]].sizes[di].outerBuffer.value),
         Mul(Two, t[rootWidget].sizes[di].innerBuffer.value))

\* An exact root of extent 1 with two exact children of extent 3/5 in sequence on di.
IsScenarioE(t, di) ==
  /\ IsSequenceFrame(t, rootWidget, di)
  /\ Declares(t, rootWidget, di, "exact") /\ ExtentIn(t, rootWidget, di) = R(1)
  /\ Len(t[rootWidget].children.childList) = 2
  /\ \A w \in KidsOf(t, rootWidget) :
        Declares(t, w, di, "exact") /\ ExtentIn(t, w, di) = <<3, 5>>

\* C10: calcRanges(di) raises the no-space-for-children error for the root
\* when the root is exact on di, its children are in sequence along di and
\* the space they need exceeds the root's extent by more than epsilon; so it
\* does for an exact root of extent 1 with two exact children of extent 0.6,
\* whatever the buffers >= 0 (the excess is at least 0.2, the epsilon less).
C10_InsufficientSpace ==
  \A di \in AxesOf(built) :
     last = Call("calcRanges", di) =>
        /\ ( /\ Declares(before, rootWidget, di, "exact")
             /\ IsSequenceFrame(before, rootWidget, di)
             /\ Gt(SpaceNeeded(before, di),
                   Add(ExtentIn(before, rootWidget, di), geom.epsilon)) )
           => err = Error("InsufficientSpace", di, rootWidget, 0)
        /\ ( /\ IsScenarioE(before, di)
             /\ BuffersNonNegative(before)
             /\ Lt(geom.epsilon, <<1, 5>>) )
           => err = Error("InsufficientSpace", di, rootWidget, 0)

C10_Witness ==
  /\ last = Call("calcRanges", 1)
  /\ IsScenarioE(before, 1)
  /\ \A w \in DOMAIN before : \A b \in BuffersOf(before, w, 1) : b.value = Zero
  /\ geom.epsilon = <<1, 1000>>
  /\ err = Error("InsufficientSpace", 1, rootWidget, 0)

\* What a frame has inside its inner buffers on di.
InteriorOf(t, p, di) ==
  Sub(ExtentIn(t, p, di), Mul(Two, t[p].sizes[di].innerBuffer.value))

\* The space the children of frame p need on their sequence axis di with the
\* extents of tree t, counting the extents of the children `declared` has as
\* exact: those extents, every child's outer buffer on both sides less the
\* outer buffer of the first and of the last child, and p's inner buffer twice.
NeedOf(t, p, di, declared) ==
  LET kids == t[p].children.childList
      n == Len(kids)
  IN Add(Sub(Sub(SumOfFn([ci \in 1..n |->
                    Add(IF Declares(declared, kids[ci], di, "exact")
                          THEN ExtentIn(t, kids[ci], di) ELSE Zero,
                        Mul(Two, t[kids[ci]].sizes[di].outerBuffer.value))]),
                 t[kids[1]].sizes[di].outerBuffer.value),
             t[kids[n]].sizes[di].outerBuffer.value),
         Mul(Two, t[p].sizes[di].innerBuffer.value))

IsCrossFrame(t, p, di) ==
  /\ t[p].children # None
  /\ t[p].children.childSequenceDir # di
  /\ Len(t[p].children.childList) >= 1

\* C11 as stated: calcRanges(di) raises the no-space-for-child error when
\* some exact frame whose children are not in sequence along di has an exact
\* child whose extent exceeds the frame's interior by more than epsilon.
C11_AsStated ==
  \A di \in AxesOf(built) :
     last = Call("calcRanges", di) =>
        \A p \in DOMAIN before :
           ( /\ Declares(before, p, di, "exact")
             /\ IsCrossFrame(before, p, di)
             /\ \E c \in KidsOf(before, p) :
                   /\ Declares(before, c, di, "exact")
                   /\ Gt(Sub(ExtentIn(before, c, di), geom.epsilon),
                         InteriorOf(before, p, di)) )
           => err.kind = "InsufficientSpace"

\* C12 as stated: calcRanges(di) returns only when every frame of the tree,
\* at any depth and whatever it declared, ends with an extent that holds its
\* exact children: on the sequence axis what they need is within the extent
\* (up to epsilon), on a cross axis each is within the interior (up to epsilon).
C12_AsStated ==
  \A di \in AxesOf(built) :
     Solved(di) =>
        \A p \in DOMAIN widgets :
           /\ IsSequenceFrame(widgets, p, di) =>
                 Le(NeedOf(widgets, p, di, before),
                    Add(ExtentIn(widgets, p, di), geom.epsilon))
           /\ IsCrossFrame(widgets, p, di) =>
                 \A c \in KidsOf(widgets, p) :
                    Declares(before, c, di, "exact") =>
                       Le(Sub(ExtentIn(widgets, c, di), geom.epsilon),
                          InteriorOf(widgets, p, di))

\* The extents of the children of p in `counted` and the buffer allowance of
\* all its children on di: every outer buffer on both sides, less the outer
\* buffer before the first child and the one after the last.
RunOf(t, p, di, counted) ==
  LET kids == t[p].children.childList
      n == Len(kids)
  IN Sub(Sub(SumOfFn([ci \in 1..n |->
                Add(IF kids[ci] \in counted THEN ExtentIn(t, kids[ci], di) ELSE Zero,
                    Mul(Two, t[kids[ci]].sizes[di].outerBuffer.value))]),
             t[kids[1]].sizes[di].outerBuffer.value),
         t[kids[n]].sizes[di].outerBuffer.value)

\* The allowance as C13 words it: every child's outer buffer once, the first
\* and the last at half.
HalvedEndsAllowance(t, p, di) ==
  LET kids == t[p].children.childList
      n == Len(kids)
  IN Sub(SumOfFn([ci \in 1..n |-> t[kids[ci]].sizes[di].outerBuffer.value]),
         Mul(Half, Add(t[kids[1]].sizes[di].outerBuffer.value,
                       t[kids[n]].sizes[di].outerBuffer.value)))

AllKidsExact(t, p, di) == \A c \in KidsOf(t, p) : Declares(t, c, di, "exact")
ShrinksInSequence(t, p, di) ==
  /\ Declares(t, p, di, "shrinkToFit")
  /\ IsSequenceFrame(t, p, di)
  /\ AllKidsExact(t, p, di)

\* C13 as stated: a shrinkToFit frame whose children, all exact, are in
\* sequence along di resolves to the sum of their extents, plus their outer
\* buffers with the two end buffers halved, plus twice its inner buffer; the
\* frame with children 2 and 3, outer buffers 0.1 and inner buffer 0.2 gets 5.5.
C13_AsStated ==
  \A di \in AxesOf(built) :
     Solved(di) =>
        /\ \A p \in DOMAIN before : ShrinksInSequence(before, p, di) =>
              ExtentIn(widgets, p, di) =
                Add(Add(SumOfFn([c \in KidsOf(before, p) |-> ExtentIn(before, c, di)]),
                        HalvedEndsAllowance(before, p, di)),
                    Mul(Two, before[p].sizes[di].innerBuffer.value))
        /\ (di = 0 /\ \E justify \in Justifies : before = ShrinkingFrameTree(justify)) =>
              ExtentIn(widgets, 2, 0) = <<11, 2>>

\* C13 amended: such a frame resolves to the sum of its children's extents,
\* plus twice every child's outer buffer less the outer buffer of the first
\* and of the last child, plus twice its inner buffer; the frame with
\* children 2 and 3, outer buffers 0.1 and inner buffer 0.2 gets 5.6.
C13_ShrinkExtentInSequence ==
  \A di \in AxesOf(built) :
     Solved(di) =>
        /\ \A p \in DOMAIN before : ShrinksInSequence(before, p, di) =>
              ExtentIn(widgets, p, di) =
                Add(RunOf(before, p, di, KidsOf(before, p)),
                    Mul(Two, before[p].sizes[di].innerBuffer.value))
        /\ (di = 0 /\ \E justify \in Justifies : before = ShrinkingFrameTree(justify)) =>
              ExtentIn(widgets, 2, 0) = <<28, 5>>

C13_Witness ==
  /\ Solved(0)
  /\ before = ShrinkingFrameTree("centre")
  /\ widgets[2].sizes[0].spaceDemand = "exact"
  /\ ExtentIn(widgets, 2, 0) = <<28, 5>>

ExpandingKids(t, p, di) == {c \in KidsOf(t, p) : Declares(t, c, di, "expandToFit")}

\* C14: after a calcRanges(di) that returned, in every frame that was exact on
\* di, had its children in sequence along di and k >= 1 of them expandToFit,
\* each of those k has the extent free/k, free being the frame's extent less
\* twice its inner buffer, the extents of the other children and the buffer
\* allowance of all children; the extents of all children and the allowance
\* then fill the interior exactly. A root of 10 with an exact child of 4 and
\* one expanding child, zero buffers, gives the expanding child 6.
C14_ExpandFillsSequence ==
  \A di \in AxesOf(built) :
     Solved(di) =>
        /\ \A p \in DOMAIN before :
              ( /\ Declares(before, p, di, "exact")
                /\ IsSequenceFrame(before, p, di)
                /\ ExpandingKids(before, p, di) # {} )
              => LET k == Cardinality(ExpandingKids(before, p, di))
                     free == Sub(InteriorOf(widgets, p, di),
                                 RunOf(widgets, p, di,
                                       KidsOf(before, p) \ ExpandingKids(before, p, di)))
                 IN /\ \A c \in ExpandingKids(before, p, di) :
                          ExtentIn(widgets, c, di) = Div(free, R(k))
                    /\ RunOf(widgets, p, di, KidsOf(widgets, p)) = InteriorOf(widgets, p, di)
        /\ (di = 0 /\ \E justify \in Justifies : before = ExpandingLeafTree(justify)) =>
              ExtentIn(widgets, 3, 0) = R(6)

C14_Witness ==
  /\ Solved(0)
  /\ before = ExpandingLeafTree("spread")
  /\ widgets[3].sizes[0].spaceDemand = "exact"
  /\ widgets[3].sizes[0].range = SimpleRange(R(4), R(10))

\* The space a frame that is exact on di has for its expandToFit children,
\* the other children being exact: on the sequence axis the interior less
\* the other children and the buffer allowance, on a cross axis the interior.
SpaceToExpand(t, p, di) ==
  IF t[p].children.childSequenceDir = di
    THEN Sub(InteriorOf(t, p, di),
             RunOf(t, p, di, KidsOf(t, p) \ ExpandingKids(t, p, di)))
    ELSE InteriorOf(t, p, di)

\* C15 as stated: calcRanges(di) raises when some frame with an expandToFit
\* child on di has no space (<= 0) for its expanding children, be its
\* children in sequence along di or not.
C15_AsStated ==
  \A di \in AxesOf(built) :
     last = Call("calcRanges", di) =>
        \A p \in DOMAIN before :
           ( /\ Declares(before, p, di, "exact")
             /\ ExpandingKids(before, p, di) # {}
             /\ \A c \in KidsOf(before, p) \ ExpandingKids(before, p, di) :
                   Declares(before, c, di, "exact")
             /\ Le(SpaceToExpand(before, p, di), Zero) )
           => err # NoError

Justify(t, p, di) == t[p].sizes[di].childrenJustify
FirstKid(t, p) == t[p].children.childList[1]
LastKid(t, p) == t[p].children.childList[Len(t[p].children.childList)]
\* The space between child number i and the next one.
GapAfter(t, p, di, i) ==
  Sub(RangeOf(t, t[p].children.childList[i + 1], di).lo,
      RangeOf(t, t[p].children.childList[i], di).hi)
\* The outer buffers that face each other between child number i and the next.
BuffersAfter(t, p, di, i) ==
  Add(t[t[p].children.childList[i]].sizes[di].outerBuffer.value,
      t[t[p].children.childList[i + 1]].sizes[di].outerBuffer.value)

\* C16: after a calcRanges(di) that returned, in a frame whose justification
\* on di is 'centre': if its children are in sequence along di they are
\* packed (neighbours apart by their outer buffers) and the run is centred,
\* first.lo - p.lo = p.hi - last.hi; if not, every child is centred on the
\* frame's midpoint. A root of 10 x 8 with inner buffer 0 and one exact
\* child of 4 x 3 gives the child [3, 7] on axis 0 and [2.5, 5.5] on axis 1.
C16_CentreJustification ==
  \A di \in AxesOf(built) :
     Solved(di) =>
        /\ \A p \in DOMAIN widgets : Justify(widgets, p, di) = "centre" =>
              /\ IsSequenceFrame(widgets, p, di) =>
                    /\ Sub(RangeOf(widgets, FirstKid(widgets, p), di).lo,
                           RangeOf(widgets, p, di).lo)
                         = Sub(RangeOf(widgets, p, di).hi,
                               RangeOf(widgets, LastKid(widgets, p), di).hi)
                    /\ \A i \in 1..(Len(widgets[p].children.childList) - 1) :
                          GapAfter(widgets, p, di, i) = BuffersAfter(widgets, p, di, i)
              /\ IsCrossFrame(widgets, p, di) =>
                    \A c \in KidsOf(widgets, p) :
                       Add(RangeOf(widgets, c, di).lo, RangeOf(widgets, c, di).hi)
                         = Add(RangeOf(widgets, p, di).lo, RangeOf(widgets, p, di).hi)
        /\ (\E dir \in Axes : built = CentredLeafTree(dir)) =>
              RangeOf(widgets, 2, di) =
                 IF di = 0 THEN SimpleRange(R(3), R(7))
                           ELSE SimpleRange(<<5, 2>>, <<11, 2>>)

C16_Witness ==
  /\ Solved(1)
  /\ calls = 2
  /\ built = CentredLeafTree(0)
  /\ RangeOf(widgets, 2, 0) = SimpleRange(R(3), R(7))
  /\ RangeOf(widgets, 2, 1) = SimpleRange(<<5, 2>>, <<11, 2>>)

\* A frame whose children, more than one, are spread along di.
SpreadsInSequence(t, p, di) ==
  /\ IsSequenceFrame(t, p, di)
  /\ Justify(t, p, di) = "spread"
  /\ Len(t[p].children.childList) > 1
\* What the interior has left once the children and their allowance are in.
Leftover(t, p, di) == Sub(InteriorOf(t, p, di), RunOf(t, p, di, KidsOf(t, p)))
\* Children laid with the same extra space e between neighbours and the
\* extra space `ends` before the first and after the last child.
SpreadWith(t, p, di, e, ends) ==
  /\ RangeOf(t, FirstKid(t, p), di).lo =
        Add(Add(RangeOf(t, p, di).lo, t[p].sizes[di].innerBuffer.value), ends)
  /\ RangeOf(t, LastKid(t, p), di).hi =
        Sub(Sub(RangeOf(t, p, di).hi, t[p].sizes[di].innerBuffer.value), ends)
  /\ \A i \in 1..(Len(t[p].children.childList) - 1) :
        GapAfter(t, p, di, i) = Add(BuffersAfter(t, p, di, i), e)

\* C17 as stated: with 'spread' and n > 1 children in sequence along di the
\* leftover space makes n + 1 equal extra gaps: one between every two
\* neighbours, one before the first child and one after the last.
C17_AsStated ==
  \A di \in AxesOf(built) :
     Solved(di) =>
        \A p \in DOMAIN widgets : SpreadsInSequence(widgets, p, di) =>
           LET e == Div(Leftover(widgets, p, di),
                        R(Len(widgets[p].children.childList) + 1))
           IN SpreadWith(widgets, p, di, e, e)

\* C17 amended: the leftover space makes n - 1 equal extra gaps, one between
\* every two neighbours; the first child starts and the last child ends one
\* inner buffer inside the frame, with no extra gap there.
C17_SpreadJustification ==
  \A di \in AxesOf(built) :
     Solved(di) =>
        \A p \in DOMAIN widgets : SpreadsInSequence(widgets, p, di) =>
           LET e == Div(Leftover(widgets, p, di),
                        R(Len(widgets[p].children.childList) - 1))
           IN SpreadWith(widgets, p, di, e, Zero)

C17_Witness ==
  /\ Solved(0)
  /\ SpreadsInSequence(widgets, rootWidget, 0)
  /\ RangeOf(widgets, rootWidget, 0) = SimpleRange(Zero, R(4))
  /\ Leftover(widgets, rootWidget, 0) = R(2)
  /\ RangeOf(widgets, 2, 0) = SimpleRange(Zero, R(1))
  /\ RangeOf(widgets, 3, 0) = SimpleRange(R(3), R(4))

\* The two orders in which the host may solve the axes 0 and 1 of tree t.
SolvedInOrder(t, first, second, epsilon) ==
  LET a == CalcRangesOutcome(t, first, epsilon)
      b == CalcRangesOutcome(a.ws, second, epsilon)
  IN [ws |-> b.ws, err |-> [di \in {first, second} |-> IF di = first THEN a.err ELSE b.err]]

\* C18: a calcRanges(di) call, returned or raised, leaves the WidgetSize of
\* every widget on every other axis as it was (spaceDemand and range too);
\* and from a newly constructed Geometry, solving axis 0 then axis 1 ends with the same
\* tree and the same per-axis outcome as solving axis 1 then axis 0.
C18_AxisIndependence ==
  /\ \A di \in AxesOf(built) :
        last = Call("calcRanges", di) =>
           \A w \in DOMAIN widgets : \A dj \in AxesOf(built) \ {di} :
              widgets[w].sizes[dj] = before[w].sizes[dj]
  /\ (last.op = "Geometry" /\ geom # None) =>
        SolvedInOrder(widgets, 0, 1, geom.epsilon) = SolvedInOrder(widgets, 1, 0, geom.epsilon)

C18_Witness ==
  /\ Solved(1)
  /\ calls = 2
  /\ \E w \in DOMAIN built : Declares(built, w, 0, "shrinkToFit")
                             /\ Declares(before, w, 0, "exact")
  /\ \E w \in DOMAIN built : Declares(built, w, 0, "expandToFit")
  /\ \A w \in DOMAIN widgets : widgets[w].sizes[0] = before[w].sizes[0]
  /\ \E w \in DOMAIN widgets : widgets[w].sizes[1].range # before[w].sizes[1].range

\* C19 as stated: WidgetSize('exact', maxExtent) with a negative maxExtent
\* raises, so that no exact WidgetSize a host has made has range.hi < range.lo.
C19_AsStated ==
  \A di \in DOMAIN widgets[rootWidget].sizes :
     Declares(widgets, rootWidget, di, "exact") =>
        Ge(RangeOf(widgets, rootWidget, di).hi, RangeOf(widgets, rootWidget, di).lo)

\* The tolerance a Geometry gets when the host leaves epsilon at its default.
DefaultEpsilon == <<1, 1000>>

\* C20 as stated: the second argument of Geometry(rootWidget, 2) is a count
\* of axes and leaves the tolerance of the capacity test alone, so that
\* every calcRanges call accepts or rejects the tree as a Geometry made
\* without a second argument does.
C20_AsStated ==
  (geom # None /\ last.op = "calcRanges") =>
     ((err = NoError) <=> (CalcRangesOutcome(before, last.di, DefaultEpsilon).err = NoError))
\* C21: a Geometry(...) that raises (an illegal demand, or a root without a
\* range) and a calcRanges(di) that raises in the check of the sizes leave
\* every widget as it was before the call: spaceDemand, range and both
\* buffers with value and style, on every axis.
C21_ValidationIsPure ==
  /\ (last.op = "Geometry" /\ err # NoError) => widgets = before
  /\ (last.op = "calcRanges" /\ err.kind = "InsufficientSpace") => widgets = before

C21_Witness ==
  /\ last.op = "calcRanges"
  /\ err.kind = "InsufficientSpace"
  /\ \E w \in DOMAIN before :
        /\ Declares(before, w, last.di, "shrinkToFit")
        /\ RangeOf(before, w, last.di) = None
        /\ widgets[w] = before[w]
\* The spaceDemand values a call may leave for a WidgetSize that had `from`.
MayBecome(from) == {from, "exact"}

\* C22: no step of the program takes the spaceDemand of any widget on any
\* axis anywhere but from 'shrinkToFit' or 'expandToFit' to 'exact': an
\* 'exact' WidgetSize stays 'exact', and none goes from 'shrinkToFit' to
\* 'expandToFit' or back.
C22_PolicyOneWay ==
  [][\A w \in DOMAIN widgets : \A di \in AxesOf(widgets) :
        widgets'[w].sizes[di].spaceDemand \in MayBecome(widgets[w].sizes[di].spaceDemand)]_vars

C22_Witness ==
  /\ calls = 2
  /\ last.op = "calcRanges"
  /\ \E w \in DOMAIN built : \E di \in AxesOf(built) :
        Declares(built, w, di, "shrinkToFit") /\ Declares(before, w, di, "exact")
                                             /\ Declares(widgets, w, di, "exact")
  /\ \E w \in DOMAIN built : \E di \in AxesOf(built) :
        Declares(built, w, di, "expandToFit") /\ Declares(before, w, di, "exact")
                                             /\ Declares(widgets, w, di, "exact")
\* The largest of a non-empty set of numbers.
LargestOf(numbers) == CHOOSE x \in numbers : \A y \in numbers : Ge(x, y)
IsEmptyFrame(t, p) == t[p].children # None /\ Len(t[p].children.childList) = 0

\* C23: after a calcRanges(di) that returned, a widget that was shrinkToFit
\* on di with children not in sequence along di has the extent of its
\* largest child on di plus twice its own inner buffer, whatever the outer
\* buffers of the children; and one that was shrinkToFit with an empty child
\* list has the extent of twice its inner buffer, on whichever axis di is.
C23_ShrinkExtentAcross ==
  \A di \in AxesOf(built) :
     Solved(di) =>
        \A p \in DOMAIN widgets :
           Declares(before, p, di, "shrinkToFit") =>
              /\ IsCrossFrame(before, p, di) =>
                    ExtentIn(widgets, p, di) =
                       Add(LargestOf({ExtentIn(widgets, c, di) : c \in KidsOf(widgets, p)}),
                           Mul(Two, widgets[p].sizes[di].innerBuffer.value))
              /\ IsEmptyFrame(before, p) =>
                    ExtentIn(widgets, p, di) =
                       Mul(Two, widgets[p].sizes[di].innerBuffer.value)

C23_Witness ==
  /\ Solved(0)
  /\ Declares(before, rootWidget, 0, "shrinkToFit")
  /\ IsCrossFrame(before, rootWidget, 0)
  /\ \E c \in KidsOf(before, rootWidget) :
        /\ Gt(before[c].sizes[0].outerBuffer.value, Zero)
        /\ IsLeaf(before, c)
        /\ ExtentIn(widgets, rootWidget, 0) =
              Add(ExtentIn(widgets, c, 0), Mul(Two, widgets[rootWidget].sizes[0].innerBuffer.value))
  /\ \E c \in KidsOf(before, rootWidget) :
        /\ IsEmptyFrame(before, c)
        /\ Declares(before, c, 0, "shrinkToFit")
        /\ Gt(ExtentIn(widgets, c, 0), Zero)
\* C24: after a calcRanges(di) that returned, in every frame whose children
\* are not in sequence along di, each child that was expandToFit on di has
\* the extent of the frame less twice the frame's inner buffer, however many
\* of its siblings expand and whatever extents the others have.
C24_ExpandFillsAcross ==
  \A di \in AxesOf(built) :
     Solved(di) =>
        \A p \in DOMAIN widgets :
           IsCrossFrame(before, p, di) =>
              \A c \in ExpandingKids(before, p, di) :
                 ExtentIn(widgets, c, di) = InteriorOf(widgets, p, di)

C24_Witness ==
  /\ Solved(0)
  /\ IsCrossFrame(before, rootWidget, 0)
  /\ Cardinality(ExpandingKids(before, rootWidget, 0)) = 2
  /\ Gt(widgets[rootWidget].sizes[0].innerBuffer.value, Zero)
  /\ \A c \in KidsOf(widgets, rootWidget) :
        /\ ExtentIn(widgets, c, 0) = InteriorOf(widgets, rootWidget, 0)
        /\ Gt(ExtentIn(widgets, c, 0), Zero)
PacksToLowest(t, p, di) == IsSequenceFrame(t, p, di) /\ Justify(t, p, di) = "toLowest"
\* The children of p lie side by side on di, the first one `start` above the
\* low end of p, every two neighbours the sum of their outer buffers apart.
PackedFrom(t, p, di, start) ==
  /\ RangeOf(t, FirstKid(t, p), di).lo = Add(RangeOf(t, p, di).lo, start)
  /\ \A i \in 1..(Len(t[p].children.childList) - 1) :
        GapAfter(t, p, di, i) = BuffersAfter(t, p, di, i)

\* C25 as stated: after a calcRanges(di) that returned, in a frame with
\* 'toLowest' whose children are in sequence along di the first child starts
\* half the frame's inner buffer above the frame's lo, and every next child
\* starts the outer buffers of the two above the hi of the one before.
C25_AsStated ==
  \A di \in AxesOf(built) :
     Solved(di) =>
        \A p \in DOMAIN widgets : PacksToLowest(widgets, p, di) =>
           PackedFrom(widgets, p, di, Mul(Half, widgets[p].sizes[di].innerBuffer.value))

\* C25 amended: the first child starts the whole inner buffer of the frame
\* above the frame's lo.
C25_ToLowestPacking ==
  \A di \in AxesOf(built) :
     Solved(di) =>
        \A p \in DOMAIN widgets : PacksToLowest(widgets, p, di) =>
           PackedFrom(widgets, p, di, widgets[p].sizes[di].innerBuffer.value)

C25_Witness ==
  /\ Solved(0)
  /\ PacksToLowest(widgets, rootWidget, 0)
  /\ Len(widgets[rootWidget].children.childList) = 2
  /\ Gt(widgets[rootWidget].sizes[0].innerBuffer.value, Zero)
  /\ Gt(BuffersAfter(widgets, rootWidget, 0, 1), Zero)
  /\ RangeOf(widgets, FirstKid(widgets, rootWidget), 0).lo =
        widgets[rootWidget].sizes[0].innerBuffer.value
  /\ Gt(ExtentIn(widgets, FirstKid(widgets, rootWidget), 0), Zero)
\* Tree t with the childrenJustify of widget p on axis di set to justify.
WithJustify(t, p, di, justify) == [t EXCEPT ![p].sizes[di].childrenJustify = justify]
SpreadsAcross(t, p, di) == IsCrossFrame(t, p, di) /\ Justify(t, p, di) = "spread"

\* C26: a calcRanges(di) call on a tree in which a frame with 'spread' has
\* its children not in sequence along di ends, for every extent and buffer,
\* as the call ends on the same tree with that frame's 'spread' on di
\* replaced by 'centre': the same error or none, and the same range on di
\* for every widget.
C26_SpreadIsCentreAcross ==
  \A di \in AxesOf(built) :
     (last = Call("calcRanges", di) /\ geom # None) =>
        \A p \in DOMAIN before : SpreadsAcross(before, p, di) =>
           LET centred == CalcRangesOutcome(WithJustify(before, p, di, "centre"),
                                           di, geom.epsilon)
           IN /\ centred.err = err
              /\ \A w \in DOMAIN widgets :
                    RangeOf(centred.ws, w, di) = RangeOf(widgets, w, di)

C26_Witness ==
  /\ Solved(0)
  /\ SpreadsAcross(before, rootWidget, 0)
  /\ Len(widgets[rootWidget].children.childList) = 2
  /\ ExtentIn(widgets, 2, 0) # ExtentIn(widgets, 3, 0)
  /\ \A c \in KidsOf(widgets, rootWidget) :
        /\ Gt(ExtentIn(widgets, c, 0), Zero)
        /\ Add(RangeOf(widgets, c, 0).lo, RangeOf(widgets, c, 0).hi) =
              Add(RangeOf(widgets, rootWidget, 0).lo, RangeOf(widgets, rootWidget, 0).hi)
        /\ Gt(RangeOf(widgets, c, 0).lo,
              Add(RangeOf(widgets, rootWidget, 0).lo,
                  widgets[rootWidget].sizes[0].innerBuffer.value))
\* Frame p reaches the placing of its children on di, and p or one of its
\* children is not 'exact' on di.
PlacesUnresolved(t, p, di) ==
  /\ t[p].children # None
  /\ Len(t[p].children.childList) >= 1
  /\ \E w \in {p} \cup KidsOf(t, p) : ~Declares(t, w, di, "exact")

\* C27 as stated: a _calcPositionsofChildren(widget, di) call on a frame
\* that is not 'exact' on di, or has a child that is not, raises an error
\* and assigns no range.
C27_AsStated ==
  \A di \in AxesOf(built) :
     (last = Call("_calcPositionsofChildren", di)
         /\ PlacesUnresolved(before, rootWidget, di)) =>
        /\ err # NoError
        /\ \A w \in DOMAIN widgets : RangeOf(widgets, w, di) = RangeOf(before, w, di)
\* C28 as stated: in a tree built with buffers >= 0, after a calcRanges(di)
\* that returned, the same call made again returns too and leaves the range
\* of every widget on di as the first call left it.
C28_AsStated ==
  \A di \in AxesOf(built) :
     (Solved(di) /\ BuffersNonNegative(built)) =>
        LET again == CalcRangesOutcome(widgets, di, geom.epsilon)
        IN /\ again.err = NoError
           /\ \A w \in DOMAIN widgets :
                 RangeOf(again.ws, w, di) = RangeOf(widgets, w, di)
\* The (C, H) pairs of a graph in order, as __getitem__ gives them.
PointsOf(graph) == [i \in 1..graph.numPoints |-> GetItem(graph, i - 1).value]

\* C29: whatever insert, delete and item-assignment calls were made on a
\* _HueGraph, returned or raised, it has at least 2 points, its first C is 0
\* and its last C is 1, its C values never descend, and every H is within
\* [0, 1].
C29_HueGraphRules ==
  LET points == PointsOf(hueGraph)
      n == Len(points)
  IN /\ n >= 2
     /\ n = hueGraph.numPoints
     /\ points[1][1] = Zero
     /\ points[n][1] = One
     /\ \A i \in 1..(n - 1) : Le(points[i][1], points[i + 1][1])
     /\ \A i \in 1..n : Ge(points[i][2], Zero) /\ Le(points[i][2], One)

C29_Witness ==
  /\ hueGraph.numPoints = 4
  /\ last.op = "delete"
  /\ err # NoError
  /\ hueGraph = before
  /\ hueGraph.internalList[1][1] = One
  /\ hueGraph.internalList[2][1] = One
  /\ hueGraph.firstH # hueGraph.lastH

\* C30: after any sequence of append, getLast and getNext calls on an
\* ActionHistory, numUndoableActions and numRedoableActions are not negative
\* and add up to the length of actionList; getLast with nothing to undo and
\* getNext with nothing to redo return None and change nothing; append leaves
\* numRedoableActions at 0 and the new action as the last undoable one.
C30_HistoryBookkeeping ==
  /\ history.numUndoableActions >= 0
  /\ history.numRedoableActions >= 0
  /\ history.numUndoableActions + history.numRedoableActions = Len(history.actionList)
  /\ (last.op = "getLast" /\ before.numUndoableActions = 0)
        => (returned = None /\ history = before)
  /\ (last.op = "getNext" /\ before.numRedoableActions = 0)
        => (returned = None /\ history = before)
  /\ last.op = "append"
        => /\ history.numRedoableActions = 0
           /\ history.numUndoableActions = Len(history.actionList)
           /\ history.actionList[history.numUndoableActions] = last.action
C30_Witness ==
  /\ last.op = "append"
  /\ before.numRedoableActions = 2
  /\ before.numUndoableActions = 1
  /\ Len(history.actionList) = 2
  /\ history.actionList[1] # history.actionList[2]
  /\ history.actionList[2] # before.actionList[2]
====
